---- MODULE Spec2Model ----
(***************************************************************************)
(* Terminal key decoding and matching (crates/pi-natives/src/keys.rs).    *)
(*                                                                         *)
(* Byte slices and strings are sequences of byte values 0..255.  The Rust  *)
(* code indexes from 0; the model keeps the code's 0-based indices and     *)
(* reads byte idx of a slice as bytes[idx + 1].  Every slice index, table  *)
(* index and unsigned subtraction of the code carries its run-time check:  *)
(* a failed check yields Panic.  Option<T> is Some(v) / None, a bool       *)
(* result is Ret(b).  u32 values are kept at full width as two 16-bit      *)
(* limbs (hi, lo), i32 values are plain integers.                          *)
(***************************************************************************)
EXTENDS Integers, Sequences, FiniteSets, TLC

VARIABLES
    data,                   \* the input passed as `data` / `bytes`
    kitty_protocol_active,  \* the mode flag of the last call
    key_id,                 \* the key spec / key name of the last call
    sent,                   \* how the terminal produced `data` (which key, which form)
    expected_codepoint,     \* matches_kitty_sequence: expected_codepoint
    expected_modifier,      \* matches_kitty_sequence: expected_modifier
    op,                     \* the exported function called last
    ret,                    \* what it returned
    window,                 \* parse_digits: idx and end
    EXECUTIONS,             \* shell.rs: the registry of in-flight executions
    SHELL_COUNTER,          \* shell.rs: the id of the next Shell
    EXECUTION_COUNTER,      \* shell.rs: the execution id of the next Shell.run
    sessions,               \* shell.rs: per Shell, its session and the queue of its lock
    calls,                  \* shell.rs: the calls of Shell.run and execute_shell
    PROFILE_BUFFER,         \* work.rs: the circular buffer of samples
    REGION_STACK,           \* work.rs: per thread, the stack of active regions
    guards,                 \* work.rs: the ProfileGuards made so far
    now,                    \* work.rs: microseconds since PROCESS_START
    pushed,                 \* work.rs: every sample pushed so far, in order
    profile                 \* work.rs: the samples get_work_profile read last

key_vars == <<data, sent, kitty_protocol_active, key_id, expected_codepoint,
              expected_modifier, op, ret, window>>

shell_vars == <<EXECUTIONS, SHELL_COUNTER, EXECUTION_COUNTER, sessions, calls>>

work_vars == <<PROFILE_BUFFER, REGION_STACK, guards, now, pushed, profile>>

vars == <<key_vars, shell_vars, work_vars>>

----------------------------------------------------------------------------
(* Results *)

None == [tag |-> "None"]
Panic == [tag |-> "Panic"]
Some(v) == [tag |-> "Some", val |-> v]
Ret(b) == [tag |-> "Ret", val |-> b]

\* `o?`: the value of o, or the early return of None (a panic passes the same way)
Try(o, F(_)) == IF o.tag # "Some" THEN o ELSE F(o.val)

\* `if c { t } else { e }` for a condition whose evaluation may panic
Cond(c, t, e) == IF c.tag = "Panic" THEN Panic ELSE IF c.val THEN t ELSE e

\* `let v = ...;`
Let(v, F(_)) == F(v)

----------------------------------------------------------------------------
(* Constants of keys.rs *)

LOCK_MASK == 192

ARROW_UP == -1
ARROW_DOWN == -2
ARROW_RIGHT == -3
ARROW_LEFT == -4

FUNC_DELETE == -10
FUNC_INSERT == -11
FUNC_PAGE_UP == -12
FUNC_PAGE_DOWN == -13
FUNC_HOME == -14
FUNC_END == -15
FUNC_CLEAR == -16

FUNC_F1 == -20
FUNC_F2 == -21
FUNC_F3 == -22
FUNC_F4 == -23
FUNC_F5 == -24
FUNC_F6 == -25
FUNC_F7 == -26
FUNC_F8 == -27
FUNC_F9 == -28
FUNC_F10 == -29
FUNC_F11 == -30
FUNC_F12 == -31

CP_ESCAPE == 27
CP_TAB == 9
CP_ENTER == 13
CP_SPACE == 32
CP_BACKSPACE == 127
CP_KP_ENTER == 57414

MOD_SHIFT == 1
MOD_ALT == 2
MOD_CTRL == 4

----------------------------------------------------------------------------
(* Static tables *)

\* The printable characters '!' (33) .. '~' (126) as one-character string
\* literals, used to write the byte strings of the source; the grave accent
\* (96) cannot be written in a string literal and has no entry.
Glyph ==
  << "!", "\"", "#", "$", "%", "&", "'", "(", ")", "*", "+", ",", "-", ".", "/", "0", "1", "2", "3",
     "4", "5", "6", "7", "8", "9", ":", ";", "<", "=", ">", "?", "@", "A", "B", "C", "D", "E", "F",
     "G", "H", "I", "J", "K", "L", "M", "N", "O", "P", "Q", "R", "S", "T", "U", "V", "W", "X", "Y",
     "Z", "[", "\\", "]", "^", "_", "", "a", "b", "c", "d", "e", "f", "g", "h", "i", "j", "k", "l",
     "m", "n", "o", "p", "q", "r", "s", "t", "u", "v", "w", "x", "y", "z", "{", "|", "}", "~" >>

\* The byte value of each one-character string literal.
GlyphCode ==
    [c \in {Glyph[i] : i \in (1..94) \ {64}} \cup {" "} |->
        IF c = " " THEN 32 ELSE 32 + (CHOOSE i \in 1..94 : Glyph[i] = c)]

Ord(c) == GlyphCode[c]

\* A string literal "..." as its bytes.
Bytes(s) == [i \in 1..Len(s) |-> Ord(SubSeq(s, i, i))]

\* A byte-string literal b"\x1b...".
Esc(s) == <<27>> \o Bytes(s)

\* Pre-allocated single ASCII printable characters (33-126)
ASCII_PRINTABLE == [i \in 1..94 |-> <<i + 32>>]

LETTERS == [i \in 1..26 |-> <<i + 96>>]

CTRL_LETTERS == [i \in 1..26 |-> Bytes("ctrl+") \o LETTERS[i]]

ALT_LETTERS == [i \in 1..26 |-> Bytes("alt+") \o LETTERS[i]]

CTRL_ALT_LETTERS == [i \in 1..26 |-> Bytes("ctrl+alt+") \o LETTERS[i]]

LEGACY_SEQUENCES ==
  { <<Esc("OA"), Bytes("up")>>, <<Esc("OB"), Bytes("down")>>, <<Esc("OC"), Bytes("right")>>,
    <<Esc("OD"), Bytes("left")>>, <<Esc("[A"), Bytes("up")>>, <<Esc("[B"), Bytes("down")>>,
    <<Esc("[C"), Bytes("right")>>, <<Esc("[D"), Bytes("left")>>, <<Esc("OH"), Bytes("home")>>,
    <<Esc("OF"), Bytes("end")>>, <<Esc("[H"), Bytes("home")>>, <<Esc("[F"), Bytes("end")>>,
    <<Esc("[1~"), Bytes("home")>>, <<Esc("[7~"), Bytes("home")>>, <<Esc("[4~"), Bytes("end")>>,
    <<Esc("[8~"), Bytes("end")>>, <<Esc("[E"), Bytes("clear")>>, <<Esc("OE"), Bytes("clear")>>,
    <<Esc("Oe"), Bytes("ctrl+clear")>>, <<Esc("[e"), Bytes("shift+clear")>>, <<Esc("[2~"), Bytes("insert")>>,
    <<Esc("[2$"), Bytes("shift+insert")>>, <<Esc("[2^"), Bytes("ctrl+insert")>>, <<Esc("[3~"), Bytes("delete")>>,
    <<Esc("[3$"), Bytes("shift+delete")>>, <<Esc("[3^"), Bytes("ctrl+delete")>>, <<Esc("[5~"), Bytes("pageUp")>>,
    <<Esc("[6~"), Bytes("pageDown")>>, <<Esc("[[5~"), Bytes("pageUp")>>, <<Esc("[[6~"), Bytes("pageDown")>>,
    <<Esc("[a"), Bytes("shift+up")>>, <<Esc("[b"), Bytes("shift+down")>>, <<Esc("[c"), Bytes("shift+right")>>,
    <<Esc("[d"), Bytes("shift+left")>>, <<Esc("Oa"), Bytes("ctrl+up")>>, <<Esc("Ob"), Bytes("ctrl+down")>>,
    <<Esc("Oc"), Bytes("ctrl+right")>>, <<Esc("Od"), Bytes("ctrl+left")>>, <<Esc("[5$"), Bytes("shift+pageUp")>>,
    <<Esc("[6$"), Bytes("shift+pageDown")>>, <<Esc("[7$"), Bytes("shift+home")>>, <<Esc("[8$"), Bytes("shift+end")>>,
    <<Esc("[5^"), Bytes("ctrl+pageUp")>>, <<Esc("[6^"), Bytes("ctrl+pageDown")>>, <<Esc("[7^"), Bytes("ctrl+home")>>,
    <<Esc("[8^"), Bytes("ctrl+end")>>, <<Esc("OP"), Bytes("f1")>>, <<Esc("OQ"), Bytes("f2")>>,
    <<Esc("OR"), Bytes("f3")>>, <<Esc("OS"), Bytes("f4")>>, <<Esc("[11~"), Bytes("f1")>>,
    <<Esc("[12~"), Bytes("f2")>>, <<Esc("[13~"), Bytes("f3")>>, <<Esc("[14~"), Bytes("f4")>>,
    <<Esc("[[A"), Bytes("f1")>>, <<Esc("[[B"), Bytes("f2")>>, <<Esc("[[C"), Bytes("f3")>>,
    <<Esc("[[D"), Bytes("f4")>>, <<Esc("[[E"), Bytes("f5")>>, <<Esc("[15~"), Bytes("f5")>>,
    <<Esc("[17~"), Bytes("f6")>>, <<Esc("[18~"), Bytes("f7")>>, <<Esc("[19~"), Bytes("f8")>>,
    <<Esc("[20~"), Bytes("f9")>>, <<Esc("[21~"), Bytes("f10")>>, <<Esc("[23~"), Bytes("f11")>>,
    <<Esc("[24~"), Bytes("f12")>>, <<Esc("b"), Bytes("alt+left")>>, <<Esc("f"), Bytes("alt+right")>>,
    <<Esc("p"), Bytes("alt+up")>>, <<Esc("n"), Bytes("alt+down")>> }

\* LEGACY_SEQUENCES.get(bytes)
LegacyGet(bytes) ==
    Let({e \in LEGACY_SEQUENCES : e[1] = bytes}, LAMBDA hits :
    IF hits = {} THEN None ELSE Some((CHOOSE e \in hits : TRUE)[2]))

----------------------------------------------------------------------------
(* u8 / u32 / i32 arithmetic *)

Limb == 65536

\* A small natural number as a u32.
U32(n) == [hi |-> n \div Limb, lo |-> n % Limb]

RECURSIVE BitAnd(_, _)
BitAnd(a, b) ==
    IF a = 0 \/ b = 0 THEN 0
    ELSE (a % 2) * (b % 2) + 2 * BitAnd(a \div 2, b \div 2)

\* a & b
U32And(a, b) == [hi |-> BitAnd(a.hi, b.hi), lo |-> BitAnd(a.lo, b.lo)]

\* !a
U32Not(a) == [hi |-> (Limb - 1) - a.hi, lo |-> (Limb - 1) - a.lo]

\* a | b
U32Or(a, b) ==
    [hi |-> a.hi + b.hi - BitAnd(a.hi, b.hi), lo |-> a.lo + b.lo - BitAnd(a.lo, b.lo)]

\* !LOCK_MASK
NOT_LOCK_MASK == U32Not(U32(LOCK_MASK))

\* u32::wrapping_mul by a small factor
wrapping_mul(v, k) ==
    Some([hi |-> (v.hi * k + (v.lo * k) \div Limb) % Limb, lo |-> (v.lo * k) % Limb])

\* u32::checked_mul by a small factor
checked_mul(v, k) ==
    LET lo2 == v.lo * k
        hi2 == v.hi * k + lo2 \div Limb
    IN  IF hi2 >= Limb THEN None ELSE Some([hi |-> hi2, lo |-> lo2 % Limb])

\* u32::checked_add of a small addend
checked_add(v, d) ==
    LET lo2 == v.lo + d
        hi2 == v.hi + lo2 \div Limb
    IN  IF hi2 >= Limb THEN None ELSE Some([hi |-> hi2, lo |-> lo2 % Limb])

\* a - 1 on u32: the subtraction overflows (panics) at 0.
U32Sub1(a) ==
    IF a.hi = 0 /\ a.lo = 0 THEN Panic
    ELSE IF a.lo > 0 THEN Some([hi |-> a.hi, lo |-> a.lo - 1])
    ELSE Some([hi |-> a.hi - 1, lo |-> Limb - 1])

\* i32::try_from(u32).ok()
I32TryFrom(v) == IF v.hi >= Limb \div 2 THEN None ELSE Some(v.hi * Limb + v.lo)

\* a - b on u8 / usize: the subtraction overflows (panics) when b > a.
USub(a, b) == IF b > a THEN Panic ELSE Some(a - b)

is_ascii_digit(b) == b \in 48..57
is_ascii_uppercase(b) == b \in 65..90
is_ascii_lowercase(b) == b \in 97..122
is_ascii_graphic(b) == b \in 33..126
to_ascii_lowercase(b) == IF is_ascii_uppercase(b) THEN b + 32 ELSE b
to_ascii_uppercase(b) == IF is_ascii_lowercase(b) THEN b - 32 ELSE b

\* bytes[idx] with its bounds check
InBounds(bytes, idx) == idx >= 0 /\ idx < Len(bytes)

----------------------------------------------------------------------------
(* Digit parsing helpers *)

RECURSIVE parse_digits_loop(_, _, _, _)
parse_digits_loop(bytes, idx, end, value) ==
    IF idx < end
    THEN IF ~InBounds(bytes, idx) THEN Panic
         ELSE IF is_ascii_digit(bytes[idx + 1])
         THEN Try(checked_mul(value, 10), LAMBDA m :
              Try(checked_add(m, bytes[idx + 1] - 48), LAMBDA a :
              parse_digits_loop(bytes, idx + 1, end, a)))
         ELSE Some([value |-> value, idx |-> idx])
    ELSE Some([value |-> value, idx |-> idx])

parse_digits(bytes, idx, end) ==
    IF idx >= end THEN None
    ELSE IF ~InBounds(bytes, idx) THEN Panic
    ELSE IF ~is_ascii_digit(bytes[idx + 1]) THEN None
    ELSE parse_digits_loop(bytes, idx, end, U32(0))

\* Returns (Option<u32>, usize) as [value |-> Some(v) / None, idx |-> i].
parse_optional_digits(bytes, idx, end) ==
    IF idx >= end THEN Some([value |-> None, idx |-> idx])
    ELSE IF ~InBounds(bytes, idx) THEN Panic
    ELSE IF ~is_ascii_digit(bytes[idx + 1]) THEN Some([value |-> None, idx |-> idx])
    ELSE Let(parse_digits(bytes, idx, end), LAMBDA r :
         IF r.tag = "Panic" THEN Panic
         ELSE IF r.tag = "None" THEN Some([value |-> None, idx |-> idx])
         ELSE Some([value |-> Some(r.val.value), idx |-> r.val.idx]))

----------------------------------------------------------------------------
(* Slice helpers *)

\* bytes.starts_with(prefix)
starts_with(bytes, prefix) ==
    Len(bytes) >= Len(prefix) /\ SubSeq(bytes, 1, Len(prefix)) = prefix

\* `idx < end && bytes[idx] == b`
PeekIs(bytes, idx, end, b) ==
    IF idx < end
    THEN IF InBounds(bytes, idx) THEN Ret(bytes[idx + 1] = b) ELSE Panic
    ELSE Ret(FALSE)

\* table[i] of a static table, i a usize
TableGet(table, i) ==
    IF i >= 0 /\ i < Len(table) THEN Some(table[i + 1]) ELSE Panic

\* An optional `:event-type` field at idx: [event_type, idx].
event_type_field(bytes, idx, end) ==
    Cond(PeekIs(bytes, idx, end, 58),
         Try(parse_digits(bytes, idx + 1, end), LAMBDA ev :
             Some([event_type |-> Some(ev.value), idx |-> ev.idx])),
         Some([event_type |-> None, idx |-> idx]))

----------------------------------------------------------------------------
(* xterm modifyOtherKeys: CSI 27 ; modifiers ; keycode [~] *)

\* b"\x1b[27;" and b"\x1b[1;"
CsiPrefix == [mok |-> Esc("[27;"), one |-> Esc("[1;")]

\* parse_modify_other_keys accepting only the form that ends in ~
parse_modify_other_keys_with_tilde(bytes) ==
    IF Len(bytes) < 7 \/ ~starts_with(bytes, CsiPrefix.mok) THEN None
    ELSE IF bytes[Len(bytes)] # 126 THEN None
    ELSE
    Try(USub(Len(bytes), 1), LAMBDA end :
    Try(parse_digits(bytes, 5, end), LAMBDA m :
    Cond(PeekIs(bytes, m.idx, end, 59),
         Try(parse_digits(bytes, m.idx + 1, end), LAMBDA k :
             IF k.idx # end \/ m.value = U32(0) THEN None
             ELSE
             Try(U32Sub1(m.value), LAMBDA modifier :
             Try(I32TryFrom(k.value), LAMBDA keycode :
             Some([modifier |-> modifier, keycode |-> keycode])))),
         None)))

parse_modify_other_keys(bytes) ==
    IF Len(bytes) < 7 \/ ~starts_with(bytes, CsiPrefix.mok) THEN None
    ELSE
    Try(IF bytes[Len(bytes)] = 126 THEN USub(Len(bytes), 1) ELSE Some(Len(bytes)),
        LAMBDA end :
    IF end <= 5 THEN None
    ELSE
    Try(parse_digits(bytes, 5, end), LAMBDA m :
    Cond(PeekIs(bytes, m.idx, end, 59),
         Try(parse_digits(bytes, m.idx + 1, end), LAMBDA k :
             IF k.idx # end \/ m.value = U32(0) THEN None
             ELSE
             Try(U32Sub1(m.value), LAMBDA modifier :
             Try(I32TryFrom(k.value), LAMBDA keycode :
             Some([modifier |-> modifier, keycode |-> keycode])))),
         None)))

----------------------------------------------------------------------------
(* Kitty protocol parsing *)

ParsedKittySequence(cp, shifted, base, modifier, ev) ==
    [codepoint |-> cp, shifted_key |-> shifted, base_layout_key |-> base,
     modifier |-> modifier, event_type |-> ev]

\* :alternate-key-codes (shifted[:base_layout]) at idx:
\* [shifted_key, base_layout_key, idx].
csi_u_alternates(bytes, idx, end) ==
    Cond(PeekIs(bytes, idx, end, 58),
         Try(parse_optional_digits(bytes, idx + 1, end), LAMBDA sh :
         Let(IF sh.value.tag = "Some" THEN I32TryFrom(sh.value.val) ELSE None,
             LAMBDA shifted_key :
         Cond(PeekIs(bytes, sh.idx, end, 58),
              Try(parse_digits(bytes, sh.idx + 1, end), LAMBDA b :
              Try(I32TryFrom(b.value), LAMBDA base :
              Some([shifted_key |-> shifted_key, base_layout_key |-> Some(base),
                    idx |-> b.idx]))),
              Some([shifted_key |-> shifted_key, base_layout_key |-> None,
                    idx |-> sh.idx])))),
         Some([shifted_key |-> None, base_layout_key |-> None, idx |-> idx]))

\* csi_u_modifiers demanding digits in a modifiers field that is present
csi_u_modifiers_digits_required(bytes, idx, end) ==
    Cond(PeekIs(bytes, idx, end, 59),
         Try(parse_digits(bytes, idx + 1, end), LAMBDA m :
         Try(event_type_field(bytes, m.idx, end), LAMBDA ev :
         Some([mod_value |-> m.value, event_type |-> ev.event_type,
               idx |-> ev.idx]))),
         Some([mod_value |-> U32(1), event_type |-> None, idx |-> idx]))

\* ;modifiers:event-type at idx: [mod_value, event_type, idx].
csi_u_modifiers(bytes, idx, end) ==
    Cond(PeekIs(bytes, idx, end, 59),
         Cond(IF idx + 1 < end
              THEN IF InBounds(bytes, idx + 1)
                   THEN Ret(is_ascii_digit(bytes[idx + 2])) ELSE Panic
              ELSE Ret(FALSE),
              Try(parse_digits(bytes, idx + 1, end), LAMBDA m :
              Try(event_type_field(bytes, m.idx, end), LAMBDA ev :
              Some([mod_value |-> m.value, event_type |-> ev.event_type,
                    idx |-> ev.idx]))),
              Try(event_type_field(bytes, idx + 1, end), LAMBDA ev :
              Some([mod_value |-> U32(1), event_type |-> ev.event_type,
                    idx |-> ev.idx]))),
         Some([mod_value |-> U32(1), event_type |-> None, idx |-> idx]))

\* The loop validating "digits(:digits)*" of the text field; returns the final idx.
RECURSIVE csi_u_text_loop(_, _, _)
csi_u_text_loop(bytes, idx, end) ==
    IF ~(idx < end) THEN Some(idx)
    ELSE IF ~InBounds(bytes, idx) THEN Panic
    ELSE IF bytes[idx + 1] = 58 THEN csi_u_text_loop(bytes, idx + 1, end)
    ELSE
    Try(parse_digits(bytes, idx, end), LAMBDA d :
    Cond(PeekIs(bytes, d.idx, end, 58),
         csi_u_text_loop(bytes, d.idx + 1, end),
         csi_u_text_loop(bytes, d.idx, end)))

\* ;text-as-codepoints (optional, may be empty) at idx; returns the final idx.
csi_u_text(bytes, idx, end) ==
    Cond(PeekIs(bytes, idx, end, 59), csi_u_text_loop(bytes, idx + 1, end), Some(idx))

parse_csi_u(bytes) ==
    Try(USub(Len(bytes), 1), LAMBDA end :
    Try(parse_digits(bytes, 2, end), LAMBDA cpd :
    Try(I32TryFrom(cpd.value), LAMBDA codepoint :
    Try(csi_u_alternates(bytes, cpd.idx, end), LAMBDA alt :
    Try(csi_u_modifiers(bytes, alt.idx, end), LAMBDA md :
    Try(csi_u_text(bytes, md.idx, end), LAMBDA tx :
    IF tx # end \/ md.mod_value = U32(0) THEN None
    ELSE
    Try(U32Sub1(md.mod_value), LAMBDA modifier :
    Some(ParsedKittySequence(codepoint, alt.shifted_key, alt.base_layout_key,
                             modifier, md.event_type)))))))))

\* The final letter of CSI 1;mod <letter>
csi_1_letter_codepoint(b) ==
    CASE b = 65 -> Some(ARROW_UP)
      [] b = 66 -> Some(ARROW_DOWN)
      [] b = 67 -> Some(ARROW_RIGHT)
      [] b = 68 -> Some(ARROW_LEFT)
      [] b = 72 -> Some(FUNC_HOME)
      [] b = 70 -> Some(FUNC_END)
      [] b = 69 -> Some(FUNC_CLEAR)
      [] b = 80 -> Some(FUNC_F1)
      [] b = 81 -> Some(FUNC_F2)
      [] b = 82 -> Some(FUNC_F3)
      [] b = 83 -> Some(FUNC_F4)
      [] OTHER -> None

\* parse_csi_1_letter accepting a modifier field of 0
parse_csi_1_letter_unchecked(bytes) ==
    IF ~starts_with(bytes, CsiPrefix.one) THEN None
    ELSE
    Let(Len(bytes), LAMBDA end :
    Try(parse_digits(bytes, 4, end), LAMBDA m :
    Try(event_type_field(bytes, m.idx, end), LAMBDA ev :
    IF ev.idx + 1 # end THEN None
    ELSE IF ~InBounds(bytes, ev.idx) THEN Panic
    ELSE
    Try(csi_1_letter_codepoint(bytes[ev.idx + 1]), LAMBDA codepoint :
    Try(U32Sub1(m.value), LAMBDA modifier :
    Some(ParsedKittySequence(codepoint, None, None, modifier, ev.event_type)))))))

parse_csi_1_letter(bytes) ==
    IF ~starts_with(bytes, CsiPrefix.one) THEN None
    ELSE
    Let(Len(bytes), LAMBDA end :
    Try(parse_digits(bytes, 4, end), LAMBDA m :
    Try(event_type_field(bytes, m.idx, end), LAMBDA ev :
    IF ev.idx + 1 # end \/ m.value = U32(0) THEN None
    ELSE IF ~InBounds(bytes, ev.idx) THEN Panic
    ELSE
    Try(csi_1_letter_codepoint(bytes[ev.idx + 1]), LAMBDA codepoint :
    Try(U32Sub1(m.value), LAMBDA modifier :
    Some(ParsedKittySequence(codepoint, None, None, modifier, ev.event_type)))))))

\* The key number of CSI <key-number> ~ ; key_num is a u32.
functional_codepoint(key_num) ==
    IF key_num.hi # 0 THEN None
    ELSE
    LET n == key_num.lo IN
    CASE n = 2 -> Some(FUNC_INSERT)
      [] n = 3 -> Some(FUNC_DELETE)
      [] n = 5 -> Some(FUNC_PAGE_UP)
      [] n = 6 -> Some(FUNC_PAGE_DOWN)
      [] n \in {1, 7} -> Some(FUNC_HOME)
      [] n \in {4, 8} -> Some(FUNC_END)
      [] n = 11 -> Some(FUNC_F1)
      [] n = 12 -> Some(FUNC_F2)
      [] n = 13 -> Some(FUNC_F3)
      [] n = 14 -> Some(FUNC_F4)
      [] n = 15 -> Some(FUNC_F5)
      [] n = 17 -> Some(FUNC_F6)
      [] n = 18 -> Some(FUNC_F7)
      [] n = 19 -> Some(FUNC_F8)
      [] n = 20 -> Some(FUNC_F9)
      [] n = 21 -> Some(FUNC_F10)
      [] n = 23 -> Some(FUNC_F11)
      [] n = 24 -> Some(FUNC_F12)
      [] OTHER -> None

\* The `;mods` field of CSI <key-number> ~ at idx: [value, idx].
functional_mod_value(bytes, idx, end) ==
    Cond(PeekIs(bytes, idx, end, 59),
         parse_digits(bytes, idx + 1, end),
         Some([value |-> U32(1), idx |-> idx]))

parse_functional(bytes) ==
    Try(USub(Len(bytes), 1), LAMBDA end :
    Try(parse_digits(bytes, 2, end), LAMBDA kn :
    Try(functional_mod_value(bytes, kn.idx, end), LAMBDA m :
    Try(event_type_field(bytes, m.idx, end), LAMBDA ev :
    IF ev.idx # end \/ m.value = U32(0) THEN None
    ELSE
    Try(functional_codepoint(kn.value), LAMBDA codepoint :
    Try(U32Sub1(m.value), LAMBDA modifier :
    Some(ParsedKittySequence(codepoint, None, None, modifier, ev.event_type))))))))

\* parse_kitty_sequence reading the prefix without the length check
parse_kitty_sequence_unguarded(bytes) ==
    IF ~InBounds(bytes, 0) THEN Panic
    ELSE IF bytes[1] # 27 THEN None
    ELSE IF ~InBounds(bytes, 1) THEN Panic
    ELSE IF bytes[2] # 91 THEN None
    ELSE
    LET last == bytes[Len(bytes)] IN
    CASE last = 117 -> parse_csi_u(bytes)
      [] last = 126 -> parse_functional(bytes)
      [] last \in {65, 66, 67, 68, 69, 70, 72, 80, 81, 82, 83} -> parse_csi_1_letter(bytes)
      [] OTHER -> None

parse_kitty_sequence(bytes) ==
    IF Len(bytes) < 4 THEN None
    ELSE IF ~InBounds(bytes, 0) THEN Panic
    ELSE IF bytes[1] # 27 THEN None
    ELSE IF ~InBounds(bytes, 1) THEN Panic
    ELSE IF bytes[2] # 91 THEN None
    ELSE IF Len(bytes) = 0 THEN None
    ELSE
    LET last == bytes[Len(bytes)] IN
    CASE last = 117 -> parse_csi_u(bytes)
      [] last = 126 -> parse_functional(bytes)
      [] last \in {65, 66, 67, 68, 69, 70, 72, 80, 81, 82, 83} -> parse_csi_1_letter(bytes)
      [] OTHER -> None

----------------------------------------------------------------------------
(* Formatting *)

format_key_name(codepoint) ==
    CASE codepoint = CP_ESCAPE -> Some(Bytes("escape"))
      [] codepoint = CP_TAB -> Some(Bytes("tab"))
      [] codepoint \in {CP_ENTER, CP_KP_ENTER} -> Some(Bytes("enter"))
      [] codepoint = CP_SPACE -> Some(Bytes("space"))
      [] codepoint = CP_BACKSPACE -> Some(Bytes("backspace"))
      [] codepoint = FUNC_DELETE -> Some(Bytes("delete"))
      [] codepoint = FUNC_INSERT -> Some(Bytes("insert"))
      [] codepoint = FUNC_HOME -> Some(Bytes("home"))
      [] codepoint = FUNC_END -> Some(Bytes("end"))
      [] codepoint = FUNC_PAGE_UP -> Some(Bytes("pageUp"))
      [] codepoint = FUNC_PAGE_DOWN -> Some(Bytes("pageDown"))
      [] codepoint = FUNC_CLEAR -> Some(Bytes("clear"))
      [] codepoint = ARROW_UP -> Some(Bytes("up"))
      [] codepoint = ARROW_DOWN -> Some(Bytes("down"))
      [] codepoint = ARROW_LEFT -> Some(Bytes("left"))
      [] codepoint = ARROW_RIGHT -> Some(Bytes("right"))
      [] codepoint = FUNC_F1 -> Some(Bytes("f1"))
      [] codepoint = FUNC_F2 -> Some(Bytes("f2"))
      [] codepoint = FUNC_F3 -> Some(Bytes("f3"))
      [] codepoint = FUNC_F4 -> Some(Bytes("f4"))
      [] codepoint = FUNC_F5 -> Some(Bytes("f5"))
      [] codepoint = FUNC_F6 -> Some(Bytes("f6"))
      [] codepoint = FUNC_F7 -> Some(Bytes("f7"))
      [] codepoint = FUNC_F8 -> Some(Bytes("f8"))
      [] codepoint = FUNC_F9 -> Some(Bytes("f9"))
      [] codepoint = FUNC_F10 -> Some(Bytes("f10"))
      [] codepoint = FUNC_F11 -> Some(Bytes("f11"))
      [] codepoint = FUNC_F12 -> Some(Bytes("f12"))
      \* the arm 33..=126 precedes (and shadows) the arm 97..=122
      [] codepoint \in 33..126 -> TableGet(ASCII_PRINTABLE, codepoint - 33)
      [] OTHER -> None

\* format_with_mods writing ctrl+ before shift+
format_with_mods_ctrl_first(mods, key_name) ==
    (IF U32And(mods, U32(MOD_CTRL)) # U32(0) THEN Bytes("ctrl+") ELSE <<>>)
    \o (IF U32And(mods, U32(MOD_SHIFT)) # U32(0) THEN Bytes("shift+") ELSE <<>>)
    \o (IF U32And(mods, U32(MOD_ALT)) # U32(0) THEN Bytes("alt+") ELSE <<>>)
    \o key_name

\* mods is a u32, key_name a string
format_with_mods(mods, key_name) ==
    (IF U32And(mods, U32(MOD_SHIFT)) # U32(0) THEN Bytes("shift+") ELSE <<>>)
    \o (IF U32And(mods, U32(MOD_CTRL)) # U32(0) THEN Bytes("ctrl+") ELSE <<>>)
    \o (IF U32And(mods, U32(MOD_ALT)) # U32(0) THEN Bytes("alt+") ELSE <<>>)
    \o key_name

\* format_kitty_key returning the key name without its modifiers
format_kitty_key_without_mods(parsed) ==
    format_key_name(IF parsed.base_layout_key.tag = "Some" THEN parsed.base_layout_key.val
                    ELSE parsed.codepoint)

format_kitty_key(parsed) ==
    Let(U32And(parsed.modifier, NOT_LOCK_MASK), LAMBDA effective_mod :
    Let(IF parsed.base_layout_key.tag = "Some" THEN parsed.base_layout_key.val
        ELSE parsed.codepoint, LAMBDA effective_codepoint :
    IF effective_mod = U32(0) THEN format_key_name(effective_codepoint)
    ELSE
    Try(format_key_name(effective_codepoint), LAMBDA key_name :
    Some(format_with_mods(effective_mod, key_name)))))

----------------------------------------------------------------------------
(* Core parsing *)

\* parse_single_byte indexing CTRL_LETTERS by the byte itself
parse_single_byte_off_by_one(code) ==
    CASE code = 27 -> Some(Bytes("escape"))
      [] code = 9 -> Some(Bytes("tab"))
      [] code \in {13, 10} -> Some(Bytes("enter"))
      [] code \in {127, 8} -> Some(Bytes("backspace"))
      [] code \in (1..26) \ {9, 13, 10, 8} -> TableGet(CTRL_LETTERS, code)
      [] OTHER -> None

parse_single_byte(code) ==
    CASE code = 27 -> Some(Bytes("escape"))
      [] code = 9 -> Some(Bytes("tab"))
      [] code \in {13, 10} -> Some(Bytes("enter"))
      [] code = 0 -> Some(Bytes("ctrl+space"))
      [] code = 32 -> Some(Bytes("space"))
      [] code \in {127, 8} -> Some(Bytes("backspace"))
      [] code = 28 -> Some(Bytes("ctrl+\\"))
      [] code = 29 -> Some(Bytes("ctrl+]"))
      [] code = 30 -> Some(Bytes("ctrl+^"))
      [] code = 31 -> Some(Bytes("ctrl+_"))
      [] code \in (1..26) \ {9, 13, 10, 8} -> TableGet(CTRL_LETTERS, code - 1)
      [] code \in 97..122 -> TableGet(LETTERS, code - 97)
      [] code \in (33..126) \ (97..122) -> TableGet(ASCII_PRINTABLE, code - 33)
      [] OTHER -> None

\* parse_esc_pair with every ESC pair left to the legacy mode
parse_esc_pair_legacy_only(code, kitty_active) ==
    IF kitty_active THEN None
    ELSE CASE code \in {127, 8} -> Some(Bytes("alt+backspace"))
           [] code = 13 -> Some(Bytes("alt+enter"))
           [] code = 9 -> Some(Bytes("alt+tab"))
           [] code = 32 -> Some(Bytes("alt+space"))
           [] code = 66 -> Some(Bytes("alt+left"))
           [] code = 70 -> Some(Bytes("alt+right"))
           [] code \in 1..26 -> TableGet(CTRL_ALT_LETTERS, code - 1)
           [] code \in 97..122 -> TableGet(ALT_LETTERS, code - 97)
           [] OTHER -> None

\* parse_esc_pair naming ESC + space in both modes
parse_esc_pair_space_always(code, kitty_active) ==
    CASE code \in {127, 8} -> Some(Bytes("alt+backspace"))
      [] code = 13 -> Some(Bytes("alt+enter"))
      [] code = 9 -> Some(Bytes("alt+tab"))
      [] code = 32 -> Some(Bytes("alt+space"))
      [] OTHER ->
         IF ~kitty_active
         THEN CASE code = 66 -> Some(Bytes("alt+left"))
                [] code = 70 -> Some(Bytes("alt+right"))
                [] code \in 1..26 -> TableGet(CTRL_ALT_LETTERS, code - 1)
                [] code \in 97..122 -> TableGet(ALT_LETTERS, code - 97)
                [] OTHER -> None
         ELSE None

parse_esc_pair(code, kitty_active) ==
    CASE code \in {127, 8} -> Some(Bytes("alt+backspace"))
      [] code = 13 -> Some(Bytes("alt+enter"))
      [] code = 9 -> Some(Bytes("alt+tab"))
      [] OTHER ->
         IF ~kitty_active
         THEN CASE code = 32 -> Some(Bytes("alt+space"))
                [] code = 66 -> Some(Bytes("alt+left"))
                [] code = 70 -> Some(Bytes("alt+right"))
                [] code \in 1..26 -> TableGet(CTRL_ALT_LETTERS, code - 1)
                [] code \in 97..122 -> TableGet(ALT_LETTERS, code - 97)
                [] OTHER -> None
         ELSE None

\* The body of parse_key_inner after the modifyOtherKeys attempt.
parse_key_kitty_or_legacy(bytes, kitty_active) ==
    Let(parse_kitty_sequence(bytes), LAMBDA parsed :
    IF parsed.tag = "Panic" THEN Panic
    ELSE IF parsed.tag = "Some" THEN format_kitty_key(parsed.val)
    ELSE IF Len(bytes) = 2
    THEN IF InBounds(bytes, 1) THEN parse_esc_pair(bytes[2], kitty_active) ELSE Panic
    ELSE IF bytes = <<27, 91, 90>> THEN Some(Bytes("shift+tab"))          \* ESC [Z
    ELSE IF bytes = <<27, 79, 77>> THEN Some(Bytes("enter"))              \* ESC OM
    ELSE None)

\* parse_key_inner with neither the table lookup nor the modifyOtherKeys attempt
parse_key_inner_without_table(bytes, kitty_active) ==
    IF Len(bytes) = 1
    THEN IF InBounds(bytes, 0) THEN parse_single_byte(bytes[1]) ELSE Panic
    ELSE IF Len(bytes) = 0 \/ bytes[1] # 27 THEN None
    ELSE parse_key_kitty_or_legacy(bytes, kitty_active)

parse_key_inner(bytes, kitty_active) ==
    IF Len(bytes) = 1
    THEN IF InBounds(bytes, 0) THEN parse_single_byte(bytes[1]) ELSE Panic
    ELSE IF Len(bytes) = 0 \/ bytes[1] # 27 THEN None
    ELSE
    Let(LegacyGet(bytes), LAMBDA key_id_ :
    IF key_id_.tag = "Some" THEN key_id_
    ELSE
    Let(parse_modify_other_keys(bytes), LAMBDA mok :
    IF mok.tag = "Panic" THEN Panic
    ELSE IF mok.tag = "Some"
    THEN Try(format_key_name(mok.val.keycode), LAMBDA key_name :
         IF mok.val.modifier = U32(0) THEN Some(key_name)
         ELSE Some(format_with_mods(U32And(mok.val.modifier, NOT_LOCK_MASK),
                                    key_name)))
    ELSE parse_key_kitty_or_legacy(bytes, kitty_active)))

----------------------------------------------------------------------------
(* Key matching *)

\* a.eq_ignore_ascii_case(b)
eq_ignore_ascii_case(a, b) ==
    /\ Len(a) = Len(b)
    /\ \A i \in 1..Len(a) : to_ascii_lowercase(a[i]) = to_ascii_lowercase(b[i])

\* char::is_whitespace on an ASCII byte
is_whitespace(b) == b \in {9, 10, 11, 12, 13, 32}

\* str::trim
RECURSIVE trim_start(_)
trim_start(s) ==
    IF Len(s) > 0 /\ is_whitespace(s[1]) THEN trim_start(Tail(s)) ELSE s

RECURSIVE trim_end(_)
trim_end(s) ==
    IF Len(s) > 0 /\ is_whitespace(s[Len(s)])
    THEN trim_end(SubSeq(s, 1, Len(s) - 1)) ELSE s

trim(s) == trim_end(trim_start(s))

\* s.ends_with(suffix)
ends_with(s, suffix) ==
    Len(s) >= Len(suffix) /\ SubSeq(s, Len(s) - Len(suffix) + 1, Len(s)) = suffix

\* s.split('+'): the segments between the separators, in order
RECURSIVE split_from(_, _, _)
split_from(s, i, cur) ==
    IF i > Len(s) THEN <<cur>>
    ELSE IF s[i] = 43 THEN <<cur>> \o split_from(s, i + 1, <<>>)
    ELSE split_from(s, i + 1, Append(cur, s[i]))

split_plus(s) == split_from(s, 1, <<>>)

\* KeyIdWords with no synonym for ctrl and alt
KeyIdWords_without_synonyms ==
    [ctrl |-> Bytes("ctrl"), control |-> Bytes("ctrl"), shift |-> Bytes("shift"),
     alt |-> Bytes("alt"), option |-> Bytes("alt"), plus |-> Bytes("plus"),
     esc |-> Bytes("esc")]

\* The words parse_key_id compares segments with
KeyIdWords ==
    [ctrl |-> Bytes("ctrl"), control |-> Bytes("control"), shift |-> Bytes("shift"),
     alt |-> Bytes("alt"), option |-> Bytes("option"), plus |-> Bytes("plus"),
     esc |-> Bytes("esc")]

\* The loop of parse_key_id taking the final segment as the key token even
\* when it is a modifier name
RECURSIVE parse_key_id_parts_last_is_key(_, _, _)
parse_key_id_parts_last_is_key(parts, i, acc) ==
    IF i > Len(parts) THEN acc
    ELSE
    Let(trim(parts[i]), LAMBDA p :
    IF Len(p) = 0 THEN parse_key_id_parts_last_is_key(parts, i + 1, acc)
    ELSE IF i = Len(parts) THEN [acc EXCEPT !.key = Some(p)]
    ELSE IF eq_ignore_ascii_case(p, KeyIdWords.ctrl) \/ eq_ignore_ascii_case(p, KeyIdWords.control)
    THEN parse_key_id_parts_last_is_key(parts, i + 1, [acc EXCEPT !.ctrl = TRUE])
    ELSE IF eq_ignore_ascii_case(p, KeyIdWords.shift)
    THEN parse_key_id_parts_last_is_key(parts, i + 1, [acc EXCEPT !.shift = TRUE])
    ELSE IF eq_ignore_ascii_case(p, KeyIdWords.alt) \/ eq_ignore_ascii_case(p, KeyIdWords.option)
    THEN parse_key_id_parts_last_is_key(parts, i + 1, [acc EXCEPT !.alt = TRUE])
    ELSE parse_key_id_parts_last_is_key(parts, i + 1, [acc EXCEPT !.key = Some(p)]))

\* The loop of parse_key_id over the segments, from segment i on.
RECURSIVE parse_key_id_parts(_, _, _)
parse_key_id_parts(parts, i, acc) ==
    IF i > Len(parts) THEN acc
    ELSE
    Let(trim(parts[i]), LAMBDA p :
    IF Len(p) = 0 THEN parse_key_id_parts(parts, i + 1, acc)
    ELSE IF eq_ignore_ascii_case(p, KeyIdWords.ctrl) \/ eq_ignore_ascii_case(p, KeyIdWords.control)
    THEN parse_key_id_parts(parts, i + 1, [acc EXCEPT !.ctrl = TRUE])
    ELSE IF eq_ignore_ascii_case(p, KeyIdWords.shift)
    THEN parse_key_id_parts(parts, i + 1, [acc EXCEPT !.shift = TRUE])
    ELSE IF eq_ignore_ascii_case(p, KeyIdWords.alt) \/ eq_ignore_ascii_case(p, KeyIdWords.option)
    THEN parse_key_id_parts(parts, i + 1, [acc EXCEPT !.alt = TRUE])
    ELSE parse_key_id_parts(parts, i + 1, [acc EXCEPT !.key = Some(p)]))

parse_key_id(id) ==
    Let(trim(id), LAMBDA s :
    IF Len(s) = 0 THEN None
    ELSE
    Let(s = <<43>> \/ ends_with(s, <<43, 43>>), LAMBDA forced_key_plus :
    Try(IF s = <<43>> THEN Some(0)
        ELSE IF forced_key_plus THEN USub(Len(s), 2)
        ELSE Some(Len(s)), LAMBDA cut :
    Let(parse_key_id_parts(split_plus(SubSeq(s, 1, cut)), 1,
            [key |-> IF forced_key_plus THEN Some(<<43>>) ELSE None,
             ctrl |-> FALSE, shift |-> FALSE, alt |-> FALSE]), LAMBDA r :
    Try(r.key, LAMBDA k :
    Some([key |-> IF eq_ignore_ascii_case(k, KeyIdWords.plus) THEN <<43>>
                  ELSE IF eq_ignore_ascii_case(k, KeyIdWords.esc) THEN KeyIdWords.esc
                  ELSE k,
          ctrl |-> r.ctrl, shift |-> r.shift, alt |-> r.alt]))))))

raw_ctrl_char(letter) ==
    Try(USub(to_ascii_lowercase(letter), 97), LAMBDA d :
    IF d + 1 > 255 THEN Panic ELSE Some(d + 1))

\* CTRL+symbol legacy mappings
ctrl_symbol_to_byte(symbol) ==
    CASE symbol = 64 -> Some(0)
      [] symbol = 91 -> Some(27)
      [] symbol = 92 -> Some(28)
      [] symbol = 93 -> Some(29)
      [] symbol = 94 -> Some(30)
      [] symbol \in {95, 45} -> Some(31)
      [] OTHER -> None

\* expected_modifier is a u32
matches_modify_other_keys(bytes, expected_keycode, exp_modifier) ==
    Let(parse_modify_other_keys(bytes), LAMBDA r :
    IF r.tag = "Panic" THEN Panic
    ELSE Ret(r.tag = "Some" /\ r.val.keycode = expected_keycode
             /\ r.val.modifier = exp_modifier))

\* Check if bytes match a legacy key sequence
matches_legacy_key(bytes, key) == LegacyGet(bytes) = Some(key)

\* The `match key` of matches_legacy_modifier_sequence for MOD_SHIFT
LegacyShiftNames ==
  { <<Bytes("up"), Bytes("shift+up")>>, <<Bytes("down"), Bytes("shift+down")>>,
    <<Bytes("right"), Bytes("shift+right")>>, <<Bytes("left"), Bytes("shift+left")>>,
    <<Bytes("clear"), Bytes("shift+clear")>>, <<Bytes("insert"), Bytes("shift+insert")>>,
    <<Bytes("delete"), Bytes("shift+delete")>>, <<Bytes("pageUp"), Bytes("shift+pageUp")>>,
    <<Bytes("pageDown"), Bytes("shift+pageDown")>>, <<Bytes("home"), Bytes("shift+home")>>,
    <<Bytes("end"), Bytes("shift+end")>> }

\* The `match key` of matches_legacy_modifier_sequence for MOD_CTRL
LegacyCtrlNames ==
  { <<Bytes("up"), Bytes("ctrl+up")>>, <<Bytes("down"), Bytes("ctrl+down")>>,
    <<Bytes("right"), Bytes("ctrl+right")>>, <<Bytes("left"), Bytes("ctrl+left")>>,
    <<Bytes("clear"), Bytes("ctrl+clear")>>, <<Bytes("insert"), Bytes("ctrl+insert")>>,
    <<Bytes("delete"), Bytes("ctrl+delete")>>, <<Bytes("pageUp"), Bytes("ctrl+pageUp")>>,
    <<Bytes("pageDown"), Bytes("ctrl+pageDown")>>, <<Bytes("home"), Bytes("ctrl+home")>>,
    <<Bytes("end"), Bytes("ctrl+end")>> }

\* Check if bytes match a legacy modifier sequence (shift/ctrl variants);
\* modifier is the bitmask built by matches_key_inner (0..7).
matches_legacy_modifier_sequence(bytes, key, modifier) ==
    LET names == IF modifier = MOD_SHIFT THEN LegacyShiftNames
                 ELSE IF modifier = MOD_CTRL THEN LegacyCtrlNames
                 ELSE {}
    IN \E e \in names : e[1] = key /\ matches_legacy_key(bytes, e[2])

\* The key names the if-chain of matches_key_inner compares the key token
\* with (eq_ignore_ascii_case), each with the arm it selects.
KeyNameArms ==
    { <<Bytes("escape"), "escape">>, <<Bytes("esc"), "escape">>, <<Bytes("space"), "space">>,
      <<Bytes("tab"), "tab">>, <<Bytes("enter"), "enter">>, <<Bytes("return"), "enter">>,
      <<Bytes("backspace"), "backspace">>, <<Bytes("insert"), "insert">>,
      <<Bytes("delete"), "delete">>, <<Bytes("clear"), "clear">>, <<Bytes("home"), "home">>,
      <<Bytes("end"), "end">>, <<Bytes("pageup"), "pageup">>,
      <<Bytes("pagedown"), "pagedown">>, <<Bytes("up"), "up">>, <<Bytes("down"), "down">>,
      <<Bytes("left"), "left">>, <<Bytes("right"), "right">> }

\* The function-key names of matches_key_inner with their codes
FKeyCodes ==
    { <<Bytes("f1"), FUNC_F1>>, <<Bytes("f2"), FUNC_F2>>, <<Bytes("f3"), FUNC_F3>>,
      <<Bytes("f4"), FUNC_F4>>, <<Bytes("f5"), FUNC_F5>>, <<Bytes("f6"), FUNC_F6>>,
      <<Bytes("f7"), FUNC_F7>>, <<Bytes("f8"), FUNC_F8>>, <<Bytes("f9"), FUNC_F9>>,
      <<Bytes("f10"), FUNC_F10>>, <<Bytes("f11"), FUNC_F11>>, <<Bytes("f12"), FUNC_F12>> }

\* The first arm of a name table whose name equals key ignoring ASCII case
\* (the names of a table are distinct): Some(arm) / None
name_arm(table, key) ==
    Let({e \in table : eq_ignore_ascii_case(key, e[1])}, LAMBDA hits :
    IF hits = {} THEN None ELSE Some((CHOOSE e \in hits : TRUE)[2]))

\* The function-key arm of matches_key_inner: Some(code) / None
f_code(key) == name_arm(FKeyCodes, key)

\* kitty_matches closure of matches_key_inner; kitty_parsed is the shared
\* decode, m the expected bitmask (0..7)
kitty_matches(kitty_parsed, codepoint, m) ==
    IF kitty_parsed.tag # "Some" THEN FALSE
    ELSE
    LET p == kitty_parsed.val
        actual_mod == U32And(p.modifier, NOT_LOCK_MASK)
        expected_mod == U32And(U32(m), NOT_LOCK_MASK)
    IN
    IF actual_mod # expected_mod THEN FALSE
    ELSE p.codepoint = codepoint \/ p.base_layout_key = Some(codepoint)

\* mok_matches closure of matches_key_inner; mok is the shared decode
mok_matches(mok, keycode, m) ==
    mok.tag = "Some" /\ mok.val.keycode = keycode /\ mok.val.modifier = U32(m)

\* `bytes.len() == 2 && bytes[0] == 0x1b && bytes[1] == b`
esc_pair_is(bytes, b) ==
    IF Len(bytes) # 2 THEN Ret(FALSE)
    ELSE IF ~InBounds(bytes, 0) THEN Panic
    ELSE IF bytes[1] # 27 THEN Ret(FALSE)
    ELSE IF ~InBounds(bytes, 1) THEN Panic
    ELSE Ret(bytes[2] = b)

\* `bytes.len() == 1 && bytes[0] == b`
single_byte_is(bytes, b) ==
    IF Len(bytes) # 1 THEN Ret(FALSE)
    ELSE IF ~InBounds(bytes, 0) THEN Panic
    ELSE Ret(bytes[1] = b)

\* r || rest, where r is Ret(b) or Panic and rest a bool
OrElse(r, rest) == IF r.tag = "Panic" THEN Panic ELSE Ret(r.val \/ rest)

\* Single-character keys of matches_key_inner (key.len() == 1)
matches_single_char(bytes, key, ctrl, shift, alt, modifier, kitty_active, kp, mok) ==
    IF ~InBounds(key, 0) THEN Panic
    ELSE
    Let(IF is_ascii_uppercase(key[1]) THEN to_ascii_lowercase(key[1]) ELSE key[1], LAMBDA ch :
    IF ~is_ascii_graphic(ch) THEN Ret(FALSE)
    ELSE
    Let(ch, LAMBDA codepoint :
    Let(is_ascii_lowercase(ch), LAMBDA is_letter :
    IF ctrl /\ alt /\ ~shift /\ ~kitty_active /\ is_letter
    THEN Try(raw_ctrl_char(ch), LAMBDA ctrl_char : esc_pair_is(bytes, ctrl_char))
    ELSE IF alt /\ ~ctrl /\ ~shift /\ ~kitty_active /\ is_letter
    THEN esc_pair_is(bytes, ch)
    ELSE IF ctrl /\ ~shift /\ ~alt
    THEN IF is_letter
         THEN Try(raw_ctrl_char(ch), LAMBDA raw :
              OrElse(single_byte_is(bytes, raw),
                     mok_matches(mok, codepoint, MOD_CTRL)
                     \/ kitty_matches(kp, codepoint, MOD_CTRL)))
         ELSE Let(ctrl_symbol_to_byte(ch), LAMBDA legacy_ctrl :
              OrElse(IF legacy_ctrl.tag = "Some"
                     THEN single_byte_is(bytes, legacy_ctrl.val) ELSE Ret(FALSE),
                     mok_matches(mok, codepoint, MOD_CTRL)
                     \/ kitty_matches(kp, codepoint, MOD_CTRL)))
    ELSE IF ctrl /\ shift /\ ~alt
    THEN Ret(kitty_matches(kp, codepoint, MOD_SHIFT + MOD_CTRL)
             \/ mok_matches(mok, codepoint, MOD_SHIFT + MOD_CTRL))
    ELSE IF shift /\ ~ctrl /\ ~alt
    THEN OrElse(IF is_letter THEN single_byte_is(bytes, to_ascii_uppercase(ch))
                ELSE Ret(FALSE),
                kitty_matches(kp, codepoint, MOD_SHIFT)
                \/ mok_matches(mok, codepoint, MOD_SHIFT))
    ELSE IF modifier # 0
    THEN Ret(kitty_matches(kp, codepoint, modifier) \/ mok_matches(mok, codepoint, modifier))
    ELSE OrElse(single_byte_is(bytes, ch), kitty_matches(kp, codepoint, 0)))))

\* The named-key arms of matches_key_inner, tried in the code's order;
\* None when the key token is none of them.
matches_named_key(bytes, key, ctrl, shift, alt, modifier, kitty_active, kp, mok) ==
    Let(name_arm(KeyNameArms, key), LAMBDA arm :
    LET is(name) == arm = Some(name)
        km(cp, m) == kitty_matches(kp, cp, m)
        mm(k, m) == mok_matches(mok, k, m)
        func_key(legacy, cp) ==
            IF modifier = 0 THEN matches_legacy_key(bytes, Bytes(legacy)) \/ km(cp, 0)
            ELSE matches_legacy_modifier_sequence(bytes, Bytes(legacy), modifier)
                 \/ km(cp, modifier)
    IN
    IF is("escape")
    THEN Some(IF modifier # 0 THEN FALSE ELSE bytes = <<27>> \/ km(CP_ESCAPE, 0))
    ELSE IF is("space")
    THEN Some(IF ~alt /\ ctrl /\ ~shift /\ bytes = <<0>> THEN TRUE
              ELSE IF ~ctrl /\ alt /\ ~shift /\ ~kitty_active /\ bytes = <<27, 32>> THEN TRUE
              ELSE IF modifier = 0 THEN bytes = <<32>> \/ km(CP_SPACE, 0)
              ELSE km(CP_SPACE, modifier) \/ mm(CP_SPACE, modifier))
    ELSE IF is("tab")
    THEN Some(IF shift /\ ~ctrl /\ ~alt
              THEN bytes = <<27, 91, 90>>                                  \* ESC [Z
                   \/ km(CP_TAB, MOD_SHIFT) \/ mm(CP_TAB, MOD_SHIFT)
              ELSE IF alt /\ ~ctrl /\ ~shift /\ bytes = <<27, 9>> THEN TRUE
              ELSE IF modifier = 0 THEN bytes = <<9>> \/ km(CP_TAB, 0)
              ELSE km(CP_TAB, modifier) \/ mm(CP_TAB, modifier))
    ELSE IF is("enter")
    THEN Some(IF alt /\ ~ctrl /\ ~shift /\ bytes = <<27, 13>> THEN TRUE
              ELSE IF modifier = 0
              THEN bytes = <<13>> \/ bytes = <<10>> \/ bytes = <<27, 79, 77>>
                   \/ km(CP_ENTER, 0) \/ km(CP_KP_ENTER, 0)
              ELSE km(CP_ENTER, modifier) \/ km(CP_KP_ENTER, modifier)
                   \/ mm(CP_ENTER, modifier) \/ mm(CP_KP_ENTER, modifier))
    ELSE IF is("backspace")
    THEN Some(IF alt /\ ~ctrl /\ ~shift
              THEN bytes = <<27, 127>> \/ bytes = <<27, 8>>
                   \/ km(CP_BACKSPACE, MOD_ALT) \/ mm(CP_BACKSPACE, MOD_ALT)
              ELSE IF modifier = 0
              THEN bytes = <<127>> \/ bytes = <<8>> \/ km(CP_BACKSPACE, 0)
              ELSE km(CP_BACKSPACE, modifier) \/ mm(CP_BACKSPACE, modifier))
    ELSE IF is("insert") THEN Some(func_key("insert", FUNC_INSERT))
    ELSE IF is("delete") THEN Some(func_key("delete", FUNC_DELETE))
    ELSE IF is("clear") THEN Some(func_key("clear", FUNC_CLEAR))
    ELSE IF is("home") THEN Some(func_key("home", FUNC_HOME))
    ELSE IF is("end") THEN Some(func_key("end", FUNC_END))
    ELSE IF is("pageup") THEN Some(func_key("pageUp", FUNC_PAGE_UP))
    ELSE IF is("pagedown") THEN Some(func_key("pageDown", FUNC_PAGE_DOWN))
    ELSE IF is("up")
    THEN Some(IF alt /\ ~ctrl /\ ~shift
              THEN bytes = <<27, 112>> \/ km(ARROW_UP, MOD_ALT)            \* ESC p
              ELSE func_key("up", ARROW_UP))
    ELSE IF is("down")
    THEN Some(IF alt /\ ~ctrl /\ ~shift
              THEN bytes = <<27, 110>> \/ km(ARROW_DOWN, MOD_ALT)          \* ESC n
              ELSE func_key("down", ARROW_DOWN))
    ELSE IF is("left")
    THEN Some(IF alt /\ ~ctrl /\ ~shift
              THEN bytes = <<27, 91, 49, 59, 51, 68>>                      \* ESC [1;3D
                   \/ (~kitty_active /\ bytes = <<27, 66>>)                \* ESC B
                   \/ bytes = <<27, 98>>                                   \* ESC b
                   \/ km(ARROW_LEFT, MOD_ALT)
              ELSE IF ctrl /\ ~alt /\ ~shift
              THEN bytes = <<27, 91, 49, 59, 53, 68>>                      \* ESC [1;5D
                   \/ matches_legacy_modifier_sequence(bytes, Bytes("left"), MOD_CTRL)
                   \/ km(ARROW_LEFT, MOD_CTRL)
              ELSE func_key("left", ARROW_LEFT))
    ELSE IF is("right")
    THEN Some(IF alt /\ ~ctrl /\ ~shift
              THEN bytes = <<27, 91, 49, 59, 51, 67>>                      \* ESC [1;3C
                   \/ (~kitty_active /\ bytes = <<27, 70>>)                \* ESC F
                   \/ bytes = <<27, 102>>                                  \* ESC f
                   \/ km(ARROW_RIGHT, MOD_ALT)
              ELSE IF ctrl /\ ~alt /\ ~shift
              THEN bytes = <<27, 91, 49, 59, 53, 67>>                      \* ESC [1;5C
                   \/ matches_legacy_modifier_sequence(bytes, Bytes("right"), MOD_CTRL)
                   \/ km(ARROW_RIGHT, MOD_CTRL)
              ELSE func_key("right", ARROW_RIGHT))
    ELSE
    Try(f_code(key), LAMBDA code :
    Some(IF modifier = 0 THEN matches_legacy_key(bytes, key) ELSE km(code, modifier))))

matches_key_inner(bytes, id, kitty_active) ==
    Let(parse_key_id(id), LAMBDA parsed_id :
    IF parsed_id.tag = "Panic" THEN Panic
    ELSE IF parsed_id.tag = "None" THEN Ret(FALSE)
    ELSE
    Let(parsed_id.val, LAMBDA k :
    Let((IF k.shift THEN MOD_SHIFT ELSE 0) + (IF k.alt THEN MOD_ALT ELSE 0)
        + (IF k.ctrl THEN MOD_CTRL ELSE 0), LAMBDA modifier :
    Let(parse_kitty_sequence(bytes), LAMBDA kitty_parsed :
    Let(parse_modify_other_keys(bytes), LAMBDA mok :
    IF kitty_parsed.tag = "Panic" \/ mok.tag = "Panic" THEN Panic
    ELSE
    Let(matches_named_key(bytes, k.key, k.ctrl, k.shift, k.alt, modifier,
                          kitty_active, kitty_parsed, mok), LAMBDA named :
    IF named.tag = "Some" THEN Ret(named.val)
    ELSE IF Len(k.key) = 1
    THEN matches_single_char(bytes, k.key, k.ctrl, k.shift, k.alt, modifier,
                             kitty_active, kitty_parsed, mok)
    ELSE Ret(FALSE)))))))

----------------------------------------------------------------------------
(* Public API *)

\* matches_kitty_sequence comparing the modifiers as given
matches_kitty_sequence_unmasked(bytes, exp_codepoint, exp_modifier) ==
    Let(parse_kitty_sequence(bytes), LAMBDA parsed :
    IF parsed.tag = "Panic" THEN Panic
    ELSE IF parsed.tag = "None" THEN Ret(FALSE)
    ELSE IF parsed.val.modifier # exp_modifier THEN Ret(FALSE)
    ELSE Ret(parsed.val.codepoint = exp_codepoint
             \/ parsed.val.base_layout_key = Some(exp_codepoint)))

matches_kitty_sequence(bytes, exp_codepoint, exp_modifier) ==
    Let(parse_kitty_sequence(bytes), LAMBDA parsed :
    IF parsed.tag = "Panic" THEN Panic
    ELSE IF parsed.tag = "None" THEN Ret(FALSE)
    ELSE IF U32And(parsed.val.modifier, NOT_LOCK_MASK) # U32And(exp_modifier, NOT_LOCK_MASK)
    THEN Ret(FALSE)
    ELSE Ret(parsed.val.codepoint = exp_codepoint
             \/ parsed.val.base_layout_key = Some(exp_codepoint)))

parse_key(bytes, kitty_active) == parse_key_inner(bytes, kitty_active)

matches_key(bytes, id, kitty_active) == matches_key_inner(bytes, id, kitty_active)

matches_legacy_sequence(bytes, key_name) == Ret(LegacyGet(bytes) = Some(key_name))

\* parse_kitty_sequence_napi: the decode copied field by field
parse_kitty_sequence_napi(bytes) ==
    Try(parse_kitty_sequence(bytes), LAMBDA p :
    Some([codepoint |-> p.codepoint,
          shifted_key |-> p.shifted_key,
          base_layout_key |-> p.base_layout_key,
          modifier |-> p.modifier,
          event_type |-> p.event_type]))

----------------------------------------------------------------------------
(* The terminal: the byte sequences the exported functions are called with *)

\* Largest modifier bitmask (shift | alt | ctrl) put on the wire or in a key spec
MaxMod == 7

\* Longest run of arbitrary bytes tried after the CSI prefix
MaxTail == 3

\* The lock bits a terminal may add to the modifier: none, Caps-Lock, Num-Lock, both
LockBits == {0, 64, 128, 192}

\* The raw (1-based) modifier values put on the wire, and the invalid value 0
RawMods == {m + l + 1 : m \in 0..MaxMod, l \in LockBits} \cup {0}

\* The decimal digits of n
RECURSIVE Dec(_)
Dec(n) == IF n < 10 THEN <<48 + n>> ELSE Dec(n \div 10) \o <<48 + (n % 10)>>

\* CSI <codepoint> ; <raw modifier> u
EncCsiU(cp, raw) == Esc("[") \o Dec(cp) \o <<59>> \o Dec(raw) \o <<117>>

\* CSI 27 ; <raw modifier> ; <keycode> [~]
EncMok(cp, raw, tilde) ==
    Esc("[27;") \o Dec(raw) \o <<59>> \o Dec(cp) \o (IF tilde THEN <<126>> ELSE <<>>)

\* CSI <key number> ; <raw modifier> ~
EncFunctional(n, raw) == Esc("[") \o Dec(n) \o <<59>> \o Dec(raw) \o <<126>>

\* CSI 1 ; <raw modifier> <letter>
EncCsi1(raw, letter) == Esc("[1;") \o Dec(raw) \o <<letter>>

\* The sequence of the given form for the number (codepoint, key number or
\* final letter) num and the raw modifier value
Wire(form, num, raw) ==
    CASE form = "csi_u" -> EncCsiU(num, raw)
      [] form = "mok" -> EncMok(num, raw, TRUE)
      [] form = "functional" -> EncFunctional(num, raw)
      [] form = "csi_1" -> EncCsi1(raw, num)

\* The window [idx, end) parse_digits is called on
Window(idx, end) == [idx |-> idx, end |-> end]

\* What the terminal sent: the bytes, the form they are in, the key they
\* encode (0: none), the number on the wire for it (0: none) and the raw
\* modifier field (-1: none)
Sent(bytes, form, key, num, raw) ==
    [bytes |-> bytes, form |-> form, key |-> key, num |-> num, raw |-> raw]

\* Codepoints of text keys sent in CSI-u and modifyOtherKeys form
TextCodepoints ==
    {CP_ESCAPE, CP_TAB, CP_ENTER, CP_SPACE, CP_BACKSPACE, CP_KP_ENTER, 97, 65, 49, 91}

\* The key numbers of CSI <n> ~ and the keys a terminal sends them for (0: none)
FunctionalNumbers ==
    { <<0, 0>>, <<1, FUNC_HOME>>, <<2, FUNC_INSERT>>, <<3, FUNC_DELETE>>, <<4, FUNC_END>>,
      <<5, FUNC_PAGE_UP>>, <<6, FUNC_PAGE_DOWN>>, <<7, FUNC_HOME>>, <<8, FUNC_END>>,
      <<9, 0>>, <<11, FUNC_F1>>, <<12, FUNC_F2>>, <<13, FUNC_F3>>, <<14, FUNC_F4>>,
      <<15, FUNC_F5>>, <<16, 0>>, <<17, FUNC_F6>>, <<18, FUNC_F7>>, <<19, FUNC_F8>>,
      <<20, FUNC_F9>>, <<21, FUNC_F10>>, <<22, 0>>, <<23, FUNC_F11>>, <<24, FUNC_F12>>,
      <<25, 0>> }

\* The final letters of CSI 1;mod <letter> and the keys they are sent for (0: none)
Csi1Letters ==
    { <<65, ARROW_UP>>, <<66, ARROW_DOWN>>, <<67, ARROW_RIGHT>>, <<68, ARROW_LEFT>>,
      <<69, FUNC_CLEAR>>, <<70, FUNC_END>>, <<72, FUNC_HOME>>, <<80, FUNC_F1>>,
      <<81, FUNC_F2>>, <<82, FUNC_F3>>, <<83, FUNC_F4>>, <<71, 0>>, <<90, 0>> }

\* Key tokens of text keys, each with a codepoint that encodes the key
TextTokens ==
    { <<Bytes("escape"), CP_ESCAPE>>, <<Bytes("esc"), CP_ESCAPE>>,
      <<Bytes("space"), CP_SPACE>>, <<Bytes("tab"), CP_TAB>>,
      <<Bytes("enter"), CP_ENTER>>, <<Bytes("return"), CP_ENTER>>,
      <<Bytes("enter"), CP_KP_ENTER>>, <<Bytes("backspace"), CP_BACKSPACE>>,
      <<Bytes("a"), 97>>, <<Bytes("a"), 65>>, <<Bytes("A"), 97>>, <<Bytes("A"), 65>>,
      <<Bytes("1"), 49>>, <<Bytes("["), 91>> }

\* Key tokens of navigation and function keys with their internal codes
NavTokens ==
    { <<Bytes("insert"), FUNC_INSERT>>, <<Bytes("delete"), FUNC_DELETE>>,
      <<Bytes("clear"), FUNC_CLEAR>>, <<Bytes("home"), FUNC_HOME>>,
      <<Bytes("end"), FUNC_END>>, <<Bytes("pageup"), FUNC_PAGE_UP>>,
      <<Bytes("pagedown"), FUNC_PAGE_DOWN>>, <<Bytes("up"), ARROW_UP>>,
      <<Bytes("down"), ARROW_DOWN>>, <<Bytes("left"), ARROW_LEFT>>,
      <<Bytes("right"), ARROW_RIGHT>>, <<Bytes("f1"), FUNC_F1>>, <<Bytes("f2"), FUNC_F2>>,
      <<Bytes("f3"), FUNC_F3>>, <<Bytes("f4"), FUNC_F4>>, <<Bytes("f5"), FUNC_F5>>,
      <<Bytes("f6"), FUNC_F6>>, <<Bytes("f7"), FUNC_F7>>, <<Bytes("f8"), FUNC_F8>>,
      <<Bytes("f9"), FUNC_F9>>, <<Bytes("f10"), FUNC_F10>>, <<Bytes("f11"), FUNC_F11>>,
      <<Bytes("f12"), FUNC_F12>> }

\* The key a terminal sends the legacy table entry e for: the last segment of
\* its name
LegacyKey(e) ==
    LET segments == split_plus(e[2])
        token == segments[Len(segments)]
    IN (CHOOSE t \in NavTokens : eq_ignore_ascii_case(t[1], token))[2]

\* The key a terminal sends the single byte b for, alone or after ESC
ByteKey(b) ==
    CASE b \in (1..26) \ {8, 9, 10, 13} -> 96 + b
      [] b = 0 -> CP_SPACE
      [] b \in {8, 127} -> CP_BACKSPACE
      [] b \in {10, 13} -> CP_ENTER
      [] b \in 28..31 -> 64 + b
      [] OTHER -> b

LegacyInputs == {Sent(e[1], "legacy", LegacyKey(e), 0, -1) : e \in LEGACY_SEQUENCES}

SingleByteInputs == {Sent(<<b>>, "byte", ByteKey(b), b, -1) : b \in 0..127}

EscPairInputs == {Sent(<<27, b>>, "esc_pair", ByteKey(b), b, -1) : b \in 0..127}

\* CSI-u with the codepoint of every ASCII letter, plain and with ctrl
LetterInputs ==
    {Sent(EncCsiU(cp, raw), "csi_u", cp, cp, raw) : cp \in (65..90) \cup (97..122), raw \in {1, 5}}

TextKeyInputs ==
    {Sent(EncCsiU(cp, raw), "csi_u", cp, cp, raw) : cp \in TextCodepoints, raw \in RawMods}
    \cup {Sent(EncMok(cp, raw, t), "mok", cp, cp, raw) :
            cp \in TextCodepoints, raw \in RawMods, t \in BOOLEAN}

FunctionalInputs ==
    {Sent(EncFunctional(f[1], raw), "functional", f[2], f[1], raw) :
        f \in FunctionalNumbers, raw \in RawMods}
    \cup {Sent(Esc("[") \o Dec(f[1]) \o <<126>>, "functional", f[2], f[1], -1) :
            f \in FunctionalNumbers}

Csi1Inputs ==
    {Sent(EncCsi1(raw, l[1]), "csi_1", l[2], l[1], raw) : raw \in RawMods, l \in Csi1Letters}

\* The optional fields of CSI-u around codepoint 97
CsiUAlternates ==
    {"", ":", ":65", "::98", ":65:98", ":65:", "::", ":4294967296", ":65:4294967296"}

CsiUModifiers == {"", ";", ";5", ";0", ";:1", ";5:1", ";5:", ";197:3", ";4294967296"}

CsiUTexts == {"", ";", ";97", ";97:98", ";:", ";:97", ";97:", ";a", ";4294967296"}

GrammarInputs ==
    {Sent(Esc("[97") \o Bytes(a) \o Bytes(m) \o Bytes(t) \o <<117>>, "grammar", 0, 0,
          IF m = ";0" THEN 0 ELSE -1) :
        a \in CsiUAlternates, m \in CsiUModifiers, t \in CsiUTexts}

\* Fields at the limits of u32 and i32
LimitInputs ==
    {Sent(Esc(t), "limit", 0, 0, -1) : t \in
        { "[4294967295u", "[4294967296u", "[2147483647u", "[2147483648u",
          "[97;4294967295u", "[97;4294967296u", "[97;1:4294967295u",
          "[2;4294967295~", "[2;4294967296~", "[4294967295~",
          "[1;4294967295A", "[1;4294967296A",
          "[27;4294967295;97~", "[27;1;4294967295~", "[27;1;2147483647~",
          "[27;4294967296;97~", "[27;1;4294967296", "[99999999999999u" }}

\* Byte values an arbitrary (truncated, malformed) sequence is made of
TailBytes == {27, 91, 49, 55, 59, 58, 117, 126, 65}

RECURSIVE SeqsUpTo(_, _)
SeqsUpTo(S, n) ==
    IF n = 0 THEN {<<>>}
    ELSE LET shorter == SeqsUpTo(S, n - 1) IN
         shorter \cup {Append(q, x) : q \in shorter, x \in S}

ArbitraryInputs ==
    {Sent(q, "raw", 0, 0, -1) : q \in
        SeqsUpTo(TailBytes, 2)
        \cup {Esc("[") \o t : t \in SeqsUpTo(TailBytes, MaxTail)}
        \cup {Esc("[27;") \o t : t \in SeqsUpTo(TailBytes, 2)}
        \cup {<<195, 169>>, <<27, 195, 169>>, Esc("[1;3D"), Esc("[1;5C")}}

\* CSI-u of a key of a non-Latin layout (primary codepoint 1072) with
\* alternate key codes: the forms whose base-layout field is the key "a", and
\* the forms in which only the shifted field is
AlternateForms ==
    { <<"::97", "csi_u_base">>, <<":65:97", "csi_u_base">>, <<":97:97", "csi_u_base">>,
      <<":97", "csi_u_shifted">>, <<":97:98", "csi_u_shifted">> }

AlternateInputs ==
    {Sent(Esc("[1072") \o Bytes(a[1]) \o <<59>> \o Dec(raw) \o <<117>>, a[2], 97, 1072, raw) :
        a \in AlternateForms, raw \in RawMods}

\* CSI-u with one byte that belongs to no field before the terminator
StrayBytes == {97, 32, 126, 117}

StrayInputs ==
    {Sent(Esc("[97") \o Bytes(f) \o <<x, 117>>, "stray", 0, 0, -1) :
        f \in {"", ":65", ";5", ";5:1", ";5;97", ":65;;97:98", ";;"}, x \in StrayBytes}

\* The fixed sequences parse_key_inner names after the table: ESC [ Z and ESC O M
FixedInputs ==
    { Sent(Esc("[Z"), "fixed", CP_TAB, 0, -1), Sent(Esc("OM"), "fixed", CP_ENTER, 0, -1) }

Inputs ==
    LegacyInputs \cup SingleByteInputs \cup EscPairInputs \cup LetterInputs
    \cup TextKeyInputs \cup FunctionalInputs \cup Csi1Inputs \cup GrammarInputs
    \cup LimitInputs \cup ArbitraryInputs \cup FixedInputs \cup AlternateInputs
    \cup StrayInputs

----------------------------------------------------------------------------
(* The caller: the key specs and expected values the functions are asked about *)

\* The modifier prefix of a key spec for the bitmask m, in canonical order
ModPrefix(m) ==
    (IF BitAnd(m, MOD_SHIFT) # 0 THEN Bytes("shift+") ELSE <<>>)
    \o (IF BitAnd(m, MOD_CTRL) # 0 THEN Bytes("ctrl+") ELSE <<>>)
    \o (IF BitAnd(m, MOD_ALT) # 0 THEN Bytes("alt+") ELSE <<>>)

ModPrefixes == {ModPrefix(m % 8) : m \in 0..MaxMod}

\* The modifier prefixes tried on the key of an input: with a modifier on
\* the wire, that modifier, the next one and none; else every one
PrefixesFor(s) ==
    IF s.raw >= 1
    THEN {ModPrefix(((s.raw - 1) % 64) % 8), ModPrefix((((s.raw - 1) % 64) + 1) % 8), <<>>}
    ELSE ModPrefixes

\* ctrl+<letter> for every ASCII letter, both cases
CtrlLetterSpecs == {Bytes("ctrl+") \o <<l>> : l \in (65..90) \cup (97..122)}

\* Key specs every input is matched against
ProbeSpecs == {Bytes("a"), Bytes("ctrl+a"), Bytes("shift+up"), Bytes("escape")}

\* Key specs every well-formed input is matched against: ill-formed specs,
\* other spellings, and specs of other keys
CommonSpecs ==
    ProbeSpecs
    \cup { <<>>, Bytes(" "), Bytes("ctrl+"), Bytes("ctrl+shift"), Bytes("ctrl++"),
           Bytes("F1"), Bytes("PageUp"), Bytes("CTRL+A"), Bytes("control+option+a"),
           Bytes("nokey"), <<195, 169>>, Bytes("alt+-"), Bytes("ctrl+@"),
           Bytes("alt"), Bytes("Shift + Option") }

\* The key specs an input is matched against: those of the key it encodes,
\* the common ones for a well-formed input with no modifier or with ctrl, and
\* the probes.
SpecsFor(s) ==
    (IF s.form \in {"raw", "grammar", "limit"} \/ s.raw \notin {-1, 1, 5}
     THEN ProbeSpecs ELSE CommonSpecs)
    \cup (IF s.key # 0
          THEN {p \o t[1] : p \in PrefixesFor(s),
                            t \in {x \in TextTokens \cup NavTokens : x[2] = s.key}}
               \cup {k \in CtrlLetterSpecs :
                        to_ascii_lowercase(k[Len(k)]) = to_ascii_lowercase(s.key)}
          ELSE {})

\* Names matches_legacy_sequence is asked about
LegacyNames == {e[2] : e \in LEGACY_SEQUENCES}

NamesFor(s) ==
    {Bytes("pageup"), Bytes("enter"), <<>>}
    \cup (IF s.form = "legacy" THEN LegacyNames ELSE {})

\* Codepoints and modifiers matches_kitty_sequence is asked about
CodepointsFor(s) == {97} \cup (IF s.key # 0 THEN {s.key} ELSE {})

ModifiersFor(s) ==
    IF s.raw >= 1 THEN {U32(m + l) : m \in {0, 5}, l \in {0, 64, 192}}
    ELSE {U32(0), U32(197)}

----------------------------------------------------------------------------
(* The work profiler (crates/pi-natives/src/work.rs)                       *)
(*                                                                         *)
(* Samples go into one circular buffer; each thread keeps a stack of the   *)
(* regions its live ProfileGuards opened.  Time is a clock that the model  *)
(* advances in steps of one microsecond.                                   *)

\* The capacity the buffer is made with (MAX_SAMPLES, 10 000 in the source)
MAX_SAMPLES == 2

\* Most ProfileGuards created
MaxGuards == 2

\* Most samples pushed by launch_blocking and launch_async themselves
MaxLaunches == 1

\* Last reading of the clock, in microseconds since PROCESS_START
MaxTime == 2

\* Threads that open regions, and the region names
Threads == {1, 2}

Regions == {"grep", "glob"}

\* struct ProfileSample
ProfileSample(stack, duration_us, timestamp_us) ==
    [stack |-> stack, duration_us |-> duration_us, timestamp_us |-> timestamp_us]

\* CircularBuffer::new
CircularBuffer_new(capacity) ==
    [samples |-> <<>>, capacity |-> capacity, write_pos |-> 0, count |-> 0]

\* CircularBuffer::push with a write position that is never wrapped
CircularBuffer_push_unwrapped(self, sample) ==
    [self EXCEPT
        !.samples = IF Len(self.samples) < self.capacity
                    THEN Append(self.samples, sample)
                    ELSE [self.samples EXCEPT ![self.write_pos + 1] = sample],
        !.write_pos = self.write_pos + 1,
        !.count = self.count + 1]

\* CircularBuffer::push
CircularBuffer_push(self, sample) ==
    [self EXCEPT
        !.samples = IF Len(self.samples) < self.capacity
                    THEN Append(self.samples, sample)
                    ELSE [self.samples EXCEPT ![self.write_pos + 1] = sample],
        !.write_pos = (self.write_pos + 1) % self.capacity,
        !.count = self.count + 1]

\* CircularBuffer::get_since
get_since(self, cutoff_us) ==
    SelectSeq(self.samples, LAMBDA s : s.timestamp_us >= cutoff_us)

\* u64::saturating_sub
saturating_sub(a, b) == IF b > a THEN 0 ELSE a - b

\* The state before any work is scheduled
WorkInit ==
    /\ PROFILE_BUFFER = CircularBuffer_new(MAX_SAMPLES)
    /\ REGION_STACK = [t \in Threads |-> <<>>]
    /\ guards = <<>>
    /\ now = 0
    /\ pushed = <<>>
    /\ profile = [cutoff_us |-> 0, samples |-> <<>>]

\* PROFILE_BUFFER.lock().push(sample); pushed keeps every sample ever pushed
Push(sample) ==
    /\ PROFILE_BUFFER' = CircularBuffer_push(PROFILE_BUFFER, sample)
    /\ pushed' = Append(pushed, sample)

\* Time passes
Tick ==
    /\ now < MaxTime
    /\ now' = now + 1
    /\ UNCHANGED <<PROFILE_BUFFER, REGION_STACK, guards, pushed, profile>>
    /\ UNCHANGED <<key_vars, shell_vars>>

\* profile_region / ProfileGuard::new on thread t
ProfileRegion ==
    /\ Len(guards) < MaxGuards
    /\ \E t \in Threads, region \in Regions :
        /\ REGION_STACK' = [REGION_STACK EXCEPT ![t] = Append(@, region)]
        /\ guards' = Append(guards, [region |-> region, start |-> now, thread |-> t,
                                     dropped |-> FALSE])
    /\ UNCHANGED <<PROFILE_BUFFER, now, pushed, profile>>
    /\ UNCHANGED <<key_vars, shell_vars>>

\* The stack after the pop of ProfileGuard::drop
popped(stack, region) ==
    IF Len(stack) > 0 /\ stack[Len(stack)] = region
    THEN SubSeq(stack, 1, Len(stack) - 1)
    ELSE stack

\* ProfileGuard::drop of guard g, on the thread that made it
ProfileGuard_drop(g) ==
    /\ ~guards[g].dropped
    /\ Push(ProfileSample(REGION_STACK[guards[g].thread], now - guards[g].start, now))
    /\ REGION_STACK' = [REGION_STACK EXCEPT ![guards[g].thread] = popped(@, guards[g].region)]
    /\ guards' = [guards EXCEPT ![g].dropped = TRUE]
    /\ UNCHANGED <<now, profile>>
    /\ UNCHANGED <<key_vars, shell_vars>>

DropGuard == \E g \in 1..Len(guards) : ProfileGuard_drop(g)

\* The sample launch_blocking pushes for the wait in the queue, and the one
\* launch_async pushes when the work is done; the work was submitted at start
Launch ==
    /\ Len(pushed) - Cardinality({g \in 1..Len(guards) : guards[g].dropped}) < MaxLaunches
    /\ \E tag \in Regions, start \in 0..now, stack \in {"blocking", "async"} :
        Push(ProfileSample(IF stack = "blocking" THEN <<tag, "queue_wait">> ELSE <<tag>>,
                           now - start, now))
    /\ UNCHANGED <<REGION_STACK, guards, now, profile>>
    /\ UNCHANGED <<key_vars, shell_vars>>

\* get_work_profile: the samples of the last window_us microseconds, kept
\* with the cutoff they were selected by
get_work_profile ==
    /\ \E window_us \in 0..(MaxTime + 1) :
        LET cutoff_us == saturating_sub(now, window_us)
        IN  profile' = [cutoff_us |-> cutoff_us,
                        samples |-> get_since(PROFILE_BUFFER, cutoff_us)]
    /\ UNCHANGED <<PROFILE_BUFFER, REGION_STACK, guards, now, pushed>>
    /\ UNCHANGED <<key_vars, shell_vars>>

----------------------------------------------------------------------------
(* Shell execution (crates/pi-natives/src/shell.rs)                        *)
(*                                                                         *)
(* A call of Shell.run or execute_shell registers a cancel sender under    *)
(* its execution id, spawns a task that runs the command, and waits in a   *)
(* select for the task, the cancel receiver or the timeout.  The model     *)
(* takes one step per stretch of code between two awaits.  A oneshot       *)
(* receiver is "open" until a value is sent ("sent") or its sender is      *)
(* dropped ("closed"); both wake the select branch `_ = cancel_rx`.  Once  *)
(* the select has returned the receiver is "dropped".                      *)

\* Most calls of Shell.run and execute_shell together
MaxCalls == 2

\* Most Shell objects created
MaxShells == 2

\* Largest execution id a caller passes to execute_shell and
\* abort_shell_execution
MaxExecutionId == 2

CallIds == 1..MaxCalls

\* struct ExecutionControl: cancel is the sender of the call that made it
ExecutionControl(cancel, shell_id) == [cancel |-> cancel, shell_id |-> shell_id]

\* struct ShellRunResult / ShellExecuteResult
ShellRunResult(code, cancelled, timed_out) ==
    [exit_code |-> code, cancelled |-> cancelled, timed_out |-> timed_out]

\* Result<T>: Ok(v) / Err(reason)
Ok(v) == [tag |-> "Ok", val |-> v]
Err(reason) == [tag |-> "Err", reason |-> reason]

\* exit_code(&run_result): the code of a command that ran to its end
exit_code == 0

\* A call that has not been made yet
NoCall ==
    [kind |-> "none", shell_id |-> 0, execution_id |-> 0, timeout_ms |-> FALSE,
     pc |-> "idle", cancel_rx |-> "none", cancel_token |-> FALSE,
     cancelled |-> FALSE, timed_out |-> FALSE, tainted |-> FALSE,
     run_task |-> "none", session |-> 0, result |-> None]

\* The next call made: calls are numbered in the order they are made
NextCall == CHOOSE c \in CallIds : calls[c].pc = "idle" /\ \A d \in 1..(c - 1) : calls[d].pc # "idle"

\* HashMap::insert and HashMap::remove
Insert(map, id, ctrl) == [i \in DOMAIN map \cup {id} |-> IF i = id THEN ctrl ELSE map[i]]

Remove(map, id) == [i \in DOMAIN map \ {id} |-> map[i]]

\* Dropping the sender of call o: its receiver, if still polled, is closed
DropSender(cs, o) ==
    IF cs[o].cancel_rx = "open" THEN [cs EXCEPT ![o].cancel_rx = "closed"] ELSE cs

\* ctrl.cancel.send(()) on the sender of call o; the error of a send to a
\* dropped receiver is ignored
Send(cs, o) ==
    IF cs[o].cancel_rx = "open" THEN [cs EXCEPT ![o].cancel_rx = "sent"] ELSE cs

\* ctrl.cancel.send(()) for each call of the set os
RECURSIVE SendAll(_, _)
SendAll(cs, os) ==
    IF os = {} THEN cs
    ELSE LET o == CHOOSE x \in os : TRUE IN SendAll(Send(cs, o), os \ {o})

\* The calls after the entry under id (if any) is dropped from the registry
\* without a send: HashMap::insert over it, or ExecutionGuard::drop
DropEntry(map, cs, id) ==
    IF id \in DOMAIN map THEN DropSender(cs, map[id].cancel) ELSE cs

\* The lock queue of a session mutex: the head holds the lock
Enqueue(ss, s, waiter) == [ss EXCEPT ![s].queue = Append(@, waiter)]

Unqueue(ss, s, waiter) ==
    [ss EXCEPT ![s].queue = SelectSeq(@, LAMBDA w : w # waiter)]

Holds(s, waiter) == Len(sessions[s].queue) > 0 /\ Head(sessions[s].queue) = waiter

\* The state before any Shell is created and any command is run
ShellInit ==
    /\ EXECUTIONS = <<>>
    /\ SHELL_COUNTER = 1
    /\ EXECUTION_COUNTER = 1
    /\ sessions = <<>>
    /\ calls = [c \in CallIds |-> NoCall]

\* The Shells created so far
Shells == DOMAIN sessions

\* The calls in flight: made and not yet returned
InFlight == {c \in CallIds : calls[c].pc \in {"select", "grace", "reset"}}

\* ExecutionGuard::drop at the return of call c with result r: the entry
\* under its execution id is removed, whichever call registered it
Return(cs, c, r) ==
    /\ calls' = [DropEntry(EXECUTIONS, cs, cs[c].execution_id)
                    EXCEPT ![c].pc = "done", ![c].result = r]
    /\ EXECUTIONS' = Remove(EXECUTIONS, cs[c].execution_id)

\* abort_ids without the filter on shell_id
abort_ids_of_any_shell(map, s) == DOMAIN map

\* The ids Shell.abort collects: the entries registered by Shell s
abort_ids(map, s) == {id \in DOMAIN map : map[id].shell_id = s}

\* grace_run_result keeping the exit code of a command that ended within
\* the grace period
grace_run_result_keeping_exit(run_task) ==
    IF run_task \in {"ok", "ok_reset"} THEN Some(exit_code) ELSE None

\* What the grace period yields as run_result
grace_run_result(run_task) == None

\* Shell::new
Shell_new ==
    /\ SHELL_COUNTER <= MaxShells
    /\ SHELL_COUNTER' = SHELL_COUNTER + 1
    /\ sessions' = Insert(sessions, SHELL_COUNTER, [session |-> None, queue |-> <<>>])
    /\ UNCHANGED <<EXECUTIONS, EXECUTION_COUNTER, calls, key_vars, work_vars>>

\* Shell::run up to its select: the id comes from the counter, the entry is
\* inserted over whatever is registered under that id, the task is spawned
Shell_run ==
    /\ \E c \in CallIds : calls[c].pc = "idle"
    /\ \E s \in Shells, timeout_ms \in BOOLEAN :
        /\ calls' = [DropEntry(EXECUTIONS, calls, EXECUTION_COUNTER)
                        EXCEPT ![NextCall] =
                            [NoCall EXCEPT !.kind = "run", !.shell_id = s,
                                           !.execution_id = EXECUTION_COUNTER,
                                           !.timeout_ms = timeout_ms,
                                           !.pc = "select", !.cancel_rx = "open",
                                           !.run_task = "spawned"]]
        /\ EXECUTIONS' = Insert(EXECUTIONS, EXECUTION_COUNTER,
                                ExecutionControl(NextCall, s))
    /\ EXECUTION_COUNTER' = EXECUTION_COUNTER + 1
    /\ UNCHANGED <<SHELL_COUNTER, sessions, key_vars, work_vars>>

\* execute_shell making its ExecutionGuard before it looks the id up, so
\* that the guard is dropped when the id is refused
execute_shell_guard_first ==
    /\ \E c \in CallIds : calls[c].pc = "idle"
    /\ \E execution_id \in 1..MaxExecutionId, timeout_ms \in BOOLEAN :
        IF execution_id \in DOMAIN EXECUTIONS
        THEN /\ calls' = [DropEntry(EXECUTIONS, calls, execution_id) EXCEPT ![NextCall] =
                            [NoCall EXCEPT !.kind = "execute",
                                           !.execution_id = execution_id,
                                           !.timeout_ms = timeout_ms,
                                           !.pc = "done",
                                           !.result = Err("Execution already running")]]
             /\ EXECUTIONS' = Remove(EXECUTIONS, execution_id)
        ELSE /\ calls' = [calls EXCEPT ![NextCall] =
                            [NoCall EXCEPT !.kind = "execute",
                                           !.execution_id = execution_id,
                                           !.timeout_ms = timeout_ms,
                                           !.pc = "select", !.cancel_rx = "open",
                                           !.run_task = "spawned"]]
             /\ EXECUTIONS' = Insert(EXECUTIONS, execution_id,
                                     ExecutionControl(NextCall, 0))
    /\ UNCHANGED <<SHELL_COUNTER, EXECUTION_COUNTER, sessions, key_vars, work_vars>>

\* execute_shell up to its select: the caller passes the id; an id that is
\* registered is refused before the guard exists
execute_shell ==
    /\ \E c \in CallIds : calls[c].pc = "idle"
    /\ \E execution_id \in 1..MaxExecutionId, timeout_ms \in BOOLEAN :
        IF execution_id \in DOMAIN EXECUTIONS
        THEN /\ calls' = [calls EXCEPT ![NextCall] =
                            [NoCall EXCEPT !.kind = "execute",
                                           !.execution_id = execution_id,
                                           !.timeout_ms = timeout_ms,
                                           !.pc = "done",
                                           !.result = Err("Execution already running")]]
             /\ UNCHANGED EXECUTIONS
        ELSE /\ calls' = [calls EXCEPT ![NextCall] =
                            [NoCall EXCEPT !.kind = "execute",
                                           !.execution_id = execution_id,
                                           !.timeout_ms = timeout_ms,
                                           !.pc = "select", !.cancel_rx = "open",
                                           !.run_task = "spawned"]]
             /\ EXECUTIONS' = Insert(EXECUTIONS, execution_id,
                                     ExecutionControl(NextCall, 0))
    /\ UNCHANGED <<SHELL_COUNTER, EXECUTION_COUNTER, sessions, key_vars, work_vars>>

\* run_task of Shell.run reaches session.lock().await
TaskLock ==
    \E c \in CallIds :
        /\ calls[c].kind = "run"
        /\ calls[c].run_task = "spawned"
        /\ calls' = [calls EXCEPT ![c].run_task = "waiting"]
        /\ sessions' = Enqueue(sessions, calls[c].shell_id, <<"task", c>>)
        /\ UNCHANGED <<EXECUTIONS, SHELL_COUNTER, EXECUTION_COUNTER, key_vars, work_vars>>

\* run_task of Shell.run holds the lock: it creates the session if there is
\* none, which may fail, and starts the command in it
TaskBegin ==
    \E c \in CallIds :
        /\ calls[c].run_task = "waiting"
        /\ Holds(calls[c].shell_id, <<"task", c>>)
        /\ \/ /\ calls' = [calls EXCEPT ![c].run_task = "running",
                                        ![c].session =
                                            IF sessions[calls[c].shell_id].session = None
                                            THEN c
                                            ELSE sessions[calls[c].shell_id].session.val]
              /\ sessions' = IF sessions[calls[c].shell_id].session = None
                             THEN [sessions EXCEPT ![calls[c].shell_id].session = Some(c)]
                             ELSE sessions
           \/ /\ sessions[calls[c].shell_id].session = None
              /\ calls' = [calls EXCEPT ![c].run_task = "err"]
              /\ sessions' = Unqueue(sessions, calls[c].shell_id, <<"task", c>>)
        /\ UNCHANGED <<EXECUTIONS, SHELL_COUNTER, EXECUTION_COUNTER, key_vars, work_vars>>

\* run_task of execute_shell: a session of its own, which may fail to be
\* created
ExecuteTaskBegin ==
    \E c \in CallIds :
        /\ calls[c].kind = "execute"
        /\ calls[c].run_task = "spawned"
        /\ \E outcome \in {"running", "err"} :
            calls' = [calls EXCEPT ![c].run_task = outcome]
        /\ UNCHANGED <<EXECUTIONS, SHELL_COUNTER, EXECUTION_COUNTER, sessions, key_vars, work_vars>>

\* How a command ends: with a result (normal control flow, or one that makes
\* should_reset_session true), with an error, or by a panic of the task
TaskOutcomes(kind) ==
    IF kind = "run" THEN {"ok", "ok_reset", "err", "panic"} ELSE {"ok", "err", "panic"}

\* run_task ends and, in Shell.run, releases the session lock
TaskEnd ==
    \E c \in CallIds :
        /\ calls[c].run_task = "running"
        /\ \E outcome \in TaskOutcomes(calls[c].kind) :
            calls' = [calls EXCEPT ![c].run_task = outcome]
        /\ sessions' = IF calls[c].kind = "run"
                       THEN Unqueue(sessions, calls[c].shell_id, <<"task", c>>)
                       ELSE sessions
        /\ UNCHANGED <<EXECUTIONS, SHELL_COUNTER, EXECUTION_COUNTER, key_vars, work_vars>>

\* select!: the branch `result = &mut run_task`
SelectTask ==
    \E c \in CallIds :
        /\ calls[c].pc = "select"
        /\ calls[c].run_task \in {"ok", "ok_reset", "err", "panic"}
        /\ Let([calls EXCEPT ![c].cancel_rx = "dropped"], LAMBDA cs :
            CASE calls[c].run_task = "panic" /\ calls[c].kind = "run" ->
                    /\ calls' = [cs EXCEPT ![c].pc = "reset",
                                    ![c].result = Err("Shell execution task failed")]
                    /\ sessions' = Enqueue(sessions, calls[c].shell_id, <<"main", c>>)
                    /\ UNCHANGED EXECUTIONS
              [] calls[c].run_task = "panic" /\ calls[c].kind = "execute" ->
                    /\ Return(cs, c, Err("Shell execution task failed"))
                    /\ UNCHANGED sessions
              [] calls[c].run_task = "err" ->
                    /\ Return(cs, c, Err("Shell execution failed"))
                    /\ UNCHANGED sessions
              [] calls[c].run_task = "ok_reset" ->
                    /\ calls' = [cs EXCEPT ![c].pc = "reset",
                                    ![c].result = Ok(ShellRunResult(Some(exit_code),
                                                        cs[c].cancelled, cs[c].timed_out))]
                    /\ sessions' = Enqueue(sessions, calls[c].shell_id, <<"main", c>>)
                    /\ UNCHANGED EXECUTIONS
              [] calls[c].run_task = "ok" ->
                    /\ Return(cs, c, Ok(ShellRunResult(Some(exit_code),
                                            cs[c].cancelled, cs[c].timed_out)))
                    /\ UNCHANGED sessions)
        /\ UNCHANGED <<SHELL_COUNTER, EXECUTION_COUNTER, key_vars, work_vars>>

\* select!: the branch `_ = cancel_rx`, ready once a value was sent or the
\* sender was dropped
SelectCancel ==
    \E c \in CallIds :
        /\ calls[c].pc = "select"
        /\ calls[c].cancel_rx \in {"sent", "closed"}
        /\ calls' = [calls EXCEPT ![c].cancelled = TRUE, ![c].cancel_token = TRUE,
                                  ![c].cancel_rx = "dropped", ![c].pc = "grace"]
        /\ UNCHANGED <<EXECUTIONS, SHELL_COUNTER, EXECUTION_COUNTER, sessions, key_vars, work_vars>>

\* select!: the branch `() = &mut timeout`, there only with a timeout
SelectTimeout ==
    \E c \in CallIds :
        /\ calls[c].pc = "select"
        /\ calls[c].timeout_ms
        /\ calls' = [calls EXCEPT ![c].timed_out = TRUE, ![c].cancel_token = TRUE,
                                  ![c].cancel_rx = "dropped", ![c].pc = "grace"]
        /\ UNCHANGED <<EXECUTIONS, SHELL_COUNTER, EXECUTION_COUNTER, sessions, key_vars, work_vars>>

\* The result of a call that was cancelled or timed out
Interrupted(cs, c) ==
    Ok(ShellRunResult(grace_run_result(cs[c].run_task), cs[c].cancelled, cs[c].timed_out))

\* The grace period ends because run_task ended: a panic taints Shell.run
GraceJoined ==
    \E c \in CallIds :
        /\ calls[c].pc = "grace"
        /\ calls[c].run_task \in {"ok", "ok_reset", "err", "panic"}
        /\ IF calls[c].kind = "run" /\ calls[c].run_task = "panic"
           THEN /\ calls' = [calls EXCEPT ![c].tainted = TRUE, ![c].pc = "reset",
                                          ![c].result = Interrupted(calls, c)]
                /\ sessions' = Enqueue(sessions, calls[c].shell_id, <<"main", c>>)
                /\ UNCHANGED EXECUTIONS
           ELSE /\ Return(calls, c, Interrupted(calls, c))
                /\ UNCHANGED sessions
        /\ UNCHANGED <<SHELL_COUNTER, EXECUTION_COUNTER, key_vars, work_vars>>

\* The grace period of 1500 ms elapses: run_task is aborted, Shell.run is
\* tainted
GraceElapsed ==
    \E c \in CallIds :
        /\ calls[c].pc = "grace"
        /\ calls[c].run_task \in {"spawned", "waiting", "running"}
        /\ IF calls[c].kind = "run"
           THEN /\ calls' = [calls EXCEPT ![c].tainted = TRUE, ![c].pc = "reset",
                                          ![c].run_task = "aborted",
                                          ![c].result = Interrupted(calls, c)]
                /\ sessions' = Enqueue(Unqueue(sessions, calls[c].shell_id, <<"task", c>>),
                                       calls[c].shell_id, <<"main", c>>)
                /\ UNCHANGED EXECUTIONS
           ELSE /\ Return([calls EXCEPT ![c].run_task = "aborted"], c,
                          Interrupted(calls, c))
                /\ UNCHANGED sessions
        /\ UNCHANGED <<SHELL_COUNTER, EXECUTION_COUNTER, key_vars, work_vars>>

\* Shell.run holds the session lock: `*self.session.lock().await = None`,
\* then it returns
ResetSession ==
    \E c \in CallIds :
        /\ calls[c].pc = "reset"
        /\ Holds(calls[c].shell_id, <<"main", c>>)
        /\ sessions' = [Unqueue(sessions, calls[c].shell_id, <<"main", c>>)
                            EXCEPT ![calls[c].shell_id].session = None]
        /\ Return(calls, c, calls[c].result)
        /\ UNCHANGED <<SHELL_COUNTER, EXECUTION_COUNTER, key_vars, work_vars>>

\* Shell::abort
Shell_abort(s) ==
    /\ EXECUTIONS' = [id \in DOMAIN EXECUTIONS \ abort_ids(EXECUTIONS, s) |-> EXECUTIONS[id]]
    /\ calls' = SendAll(calls, {EXECUTIONS[id].cancel : id \in abort_ids(EXECUTIONS, s)})
    /\ UNCHANGED <<SHELL_COUNTER, EXECUTION_COUNTER, sessions, key_vars, work_vars>>

\* abort_shell_execution
abort_shell_execution(execution_id) ==
    /\ EXECUTIONS' = Remove(EXECUTIONS, execution_id)
    /\ calls' = IF execution_id \in DOMAIN EXECUTIONS
                THEN Send(calls, EXECUTIONS[execution_id].cancel)
                ELSE calls
    /\ UNCHANGED <<SHELL_COUNTER, EXECUTION_COUNTER, sessions, key_vars, work_vars>>

ShellAbort == \E s \in Shells : Shell_abort(s)

AbortShellExecution == \E id \in 1..MaxExecutionId : abort_shell_execution(id)

\* The shell specification: nothing is decoded
ShellSpecInit ==
    /\ ShellInit
    /\ WorkInit
    /\ sent = Sent(<<>>, "raw", 0, 0, -1)
    /\ data = sent.bytes
    /\ kitty_protocol_active = FALSE
    /\ key_id = <<>>
    /\ expected_codepoint = 0
    /\ expected_modifier = U32(0)
    /\ op = "none"
    /\ ret = None
    /\ window = Window(0, 0)

ShellNext ==
    \/ Shell_new
    \/ Shell_run
    \/ execute_shell
    \/ TaskLock
    \/ TaskBegin
    \/ ExecuteTaskBegin
    \/ TaskEnd
    \/ SelectTask
    \/ SelectCancel
    \/ SelectTimeout
    \/ GraceJoined
    \/ GraceElapsed
    \/ ResetSession
    \/ ShellAbort
    \/ AbortShellExecution

ShellSpec == ShellSpecInit /\ [][ShellNext]_vars

\* The profiler specification: nothing is decoded, no command is run
WorkSpecInit ==
    /\ WorkInit
    /\ ShellInit
    /\ sent = Sent(<<>>, "raw", 0, 0, -1)
    /\ data = sent.bytes
    /\ kitty_protocol_active = FALSE
    /\ key_id = <<>>
    /\ expected_codepoint = 0
    /\ expected_modifier = U32(0)
    /\ op = "none"
    /\ ret = None
    /\ window = Window(0, 0)

WorkNext ==
    \/ Tick
    \/ ProfileRegion
    \/ DropGuard
    \/ Launch
    \/ get_work_profile

WorkSpec == WorkSpecInit /\ [][WorkNext]_vars

----------------------------------------------------------------------------
(* The exported functions, each called once on the input *)

Init ==
    /\ sent \in Inputs
    /\ data = sent.bytes
    /\ kitty_protocol_active = FALSE
    /\ key_id = <<>>
    /\ expected_codepoint = 0
    /\ expected_modifier = U32(0)
    /\ op = "none"
    /\ ret = None
    /\ window = Window(0, 0)
    /\ ShellInit
    /\ WorkInit

ParseKey ==
    /\ op = "none"
    /\ \E flag \in BOOLEAN :
        /\ kitty_protocol_active' = flag
        /\ ret' = parse_key(data, flag)
    /\ op' = "parse_key"
    /\ UNCHANGED <<data, sent, key_id, expected_codepoint, expected_modifier>>
    /\ UNCHANGED <<window, shell_vars, work_vars>>

MatchesKey ==
    /\ op = "none"
    /\ \E flag \in BOOLEAN, k \in SpecsFor(sent) :
        /\ kitty_protocol_active' = flag
        /\ key_id' = k
        /\ ret' = matches_key(data, k, flag)
    /\ op' = "matches_key"
    /\ UNCHANGED <<data, sent, expected_codepoint, expected_modifier>>
    /\ UNCHANGED <<window, shell_vars, work_vars>>

MatchesKittySequence ==
    /\ op = "none"
    /\ \E cp \in CodepointsFor(sent), m \in ModifiersFor(sent) :
        /\ expected_codepoint' = cp
        /\ expected_modifier' = m
        /\ ret' = matches_kitty_sequence(data, cp, m)
    /\ op' = "matches_kitty_sequence"
    /\ UNCHANGED <<data, sent, kitty_protocol_active, key_id>>
    /\ UNCHANGED <<window, shell_vars, work_vars>>

MatchesLegacySequence ==
    /\ op = "none"
    /\ \E name \in NamesFor(sent) :
        /\ key_id' = name
        /\ ret' = matches_legacy_sequence(data, name)
    /\ op' = "matches_legacy_sequence"
    /\ UNCHANGED <<data, sent, kitty_protocol_active, expected_codepoint,
                   expected_modifier>>
    /\ UNCHANGED <<window, shell_vars, work_vars>>

ParseKittySequence ==
    /\ op = "none"
    /\ ret' = parse_kitty_sequence_napi(data)
    /\ op' = "parse_kitty_sequence"
    /\ UNCHANGED <<data, sent, kitty_protocol_active, key_id, expected_codepoint,
                   expected_modifier>>
    /\ UNCHANGED <<window, shell_vars, work_vars>>

\* matches_key asked, after parse_key, about the name parse_key returned
MatchesParsedKey ==
    /\ op = "parse_key"
    /\ ret.tag = "Some"
    /\ key_id' = ret.val
    /\ ret' = matches_key(data, ret.val, kitty_protocol_active)
    /\ op' = "matches_key"
    /\ UNCHANGED <<data, sent, kitty_protocol_active, expected_codepoint,
                   expected_modifier>>
    /\ UNCHANGED <<window, shell_vars, work_vars>>

Next ==
    \/ ParseKey
    \/ MatchesKey
    \/ MatchesKittySequence
    \/ MatchesLegacySequence
    \/ ParseKittySequence
    \/ MatchesParsedKey

Spec == Init /\ [][Next]_vars

----------------------------------------------------------------------------
(* The digit scanner called on a window of its own, and the decoders given *)
(* digit fields at the limit of u32                                        *)

\* Longest sequence of arbitrary bytes the scanner is called on
MaxDigits == 3

\* The bytes those sequences are made of: digits and a separator
DigitBytes == {48, 49, 57, 59}

\* Digit runs at the limit of u32: 2^32 - 1, with a leading zero, followed by
\* a separator, and runs whose value exceeds it
LimitRuns ==
    { "4294967295", "04294967295", "4294967295;", "4294967296", "4294967297",
      "4294967393", "42949672950", "99999999999" }

\* The digit runs among them whose value exceeds 2^32 - 1
OverflowRuns == {"4294967296", "4294967297", "4294967393", "42949672950", "99999999999"}

WindowInputs ==
    {Sent(q, "window", 0, 0, -1) :
        q \in SeqsUpTo(DigitBytes, MaxDigits) \cup {Bytes(t) : t \in LimitRuns}}

\* The digit fields of the decoders: what precedes and what follows the field
DigitFields ==
    { <<"[", "u">>, <<"[97::", "u">>, <<"[97;", "u">>, <<"[97;5:", "u">>,
      <<"[97;5;", "u">>, <<"[", "~">>, <<"[2;", "~">>, <<"[2;5:", "~">>,
      <<"[1;", "A">>, <<"[1;5:", "A">>, <<"[27;", ";97~">>, <<"[27;5;", "~">>,
      <<"[27;5;", "">> }

OverflowInputs ==
    {Sent(Esc(f[1]) \o Bytes(t) \o Bytes(f[2]), "overflow", 0, 0, -1) :
        f \in DigitFields, t \in OverflowRuns}

DigitInit ==
    /\ sent \in WindowInputs \cup OverflowInputs
    /\ data = sent.bytes
    /\ window \in IF sent.form = "window"
                  THEN {Window(i, e) : i \in 0..Len(sent.bytes), e \in 0..Len(sent.bytes)}
                  ELSE {Window(0, 0)}
    /\ kitty_protocol_active = FALSE
    /\ key_id = <<>>
    /\ expected_codepoint = 0
    /\ expected_modifier = U32(0)
    /\ op = "none"
    /\ ret = None
    /\ ShellInit
    /\ WorkInit

ParseDigits ==
    /\ op = "none"
    /\ sent.form = "window"
    /\ ret' = parse_digits(data, window.idx, window.end)
    /\ op' = "parse_digits"
    /\ UNCHANGED <<data, sent, kitty_protocol_active, key_id, expected_codepoint,
                   expected_modifier, window, shell_vars, work_vars>>

ParseOptionalDigits ==
    /\ op = "none"
    /\ sent.form = "window"
    /\ ret' = parse_optional_digits(data, window.idx, window.end)
    /\ op' = "parse_optional_digits"
    /\ UNCHANGED <<data, sent, kitty_protocol_active, key_id, expected_codepoint,
                   expected_modifier, window, shell_vars, work_vars>>

DigitNext ==
    \/ ParseDigits
    \/ ParseOptionalDigits
    \/ ParseKittySequence
    \/ ParseKey

DigitSpec == DigitInit /\ [][DigitNext]_vars

----------------------------------------------------------------------------
(* Properties *)

\* The input is the CSI-u sequence ESC [ <uppercase codepoint> ; 5 u of a letter
UppercaseCtrlCsiU(l) == l \in 65..90 /\ data = EncCsiU(l, 5)

\* "ctrl+" followed by the character c
CtrlPlus(c) == <<99, 116, 114, 108, 43, c>>

\* C1: for every byte sequence that is a key of the legacy sequence table,
\* parse_key(bytes, false) returns exactly the name stored for the entry and
\* matches_legacy_sequence(bytes, name) is true for that name.
C1_LegacyTable ==
    \A e \in LEGACY_SEQUENCES :
        data = e[1] =>
            /\ (op = "parse_key" /\ ~kitty_protocol_active => ret = Some(e[2]))
            /\ (op = "matches_legacy_sequence" /\ key_id = e[2] => ret = Ret(TRUE))

\* A legacy table sequence parsed with the Kitty flag off
C1_Witness ==
    /\ op = "parse_key" /\ ~kitty_protocol_active
    /\ data = <<27, 79, 65>>
    /\ <<data, ret.val>> \in LEGACY_SEQUENCES

\* C2 (as stated): for every single byte b in 1..26 and both flag values,
\* parse_key([b], flag) is "ctrl+" followed by the b-th letter of the alphabet.
C2_EveryByte ==
    \A b \in 1..26 : data = <<b>> /\ op = "parse_key" => ret = Some(CtrlPlus(96 + b))

\* C2 (amended): the same for every b in 1..26 other than 8 (backspace),
\* 9 (tab), 10 and 13 (enter), which parse_key names as those keys.
C2_CtrlLetters ==
    /\ \A b \in (1..26) \ {8, 9, 10, 13} :
          data = <<b>> /\ op = "parse_key" => ret = Some(CtrlPlus(96 + b))
    /\ data = <<8>> /\ op = "parse_key" => ret = Some(Bytes("backspace"))
    /\ data = <<9>> /\ op = "parse_key" => ret = Some(Bytes("tab"))
    /\ data \in {<<10>>, <<13>>} /\ op = "parse_key" => ret = Some(Bytes("enter"))

\* Byte 26 parsed with the Kitty flag on
C2_Witness ==
    data = <<26>> /\ op = "parse_key" /\ kitty_protocol_active /\ ret = Some(Bytes("ctrl+z"))

\* C3: for every ASCII letter, ESC [ <uppercase codepoint> ; 5 u satisfies the
\* key spec "ctrl+<letter>" with the Kitty flag on.
C3_UppercaseCsiUMatches ==
    \A l \in 65..90 :
        UppercaseCtrlCsiU(l) /\ op = "matches_key" /\ kitty_protocol_active
        /\ key_id = CtrlPlus(l + 32)
        => ret = Ret(TRUE)

\* C4: for every ASCII letter, parse_key of ESC [ <uppercase codepoint> ; 5 u
\* is "ctrl+<lowercase letter>", with either flag value.
C4_UppercaseCsiUParses ==
    \A l \in 65..90 :
        UppercaseCtrlCsiU(l) /\ op = "parse_key" => ret = Some(CtrlPlus(l + 32))

\* The forms that carry a key and a raw modifier value on the wire
ProtocolForms == {"csi_u", "mok", "functional", "csi_1"}

\* The modifier bitmask on the wire with the lock bits removed
WireModifier == (sent.raw - 1) % 64

\* The input is the encoder's sequence for the key, with a modifier field
Encoded ==
    /\ sent.form \in ProtocolForms
    /\ sent.raw >= 1
    /\ data = Wire(sent.form, sent.num, sent.raw)

\* The same key on the wire with the lock bits l added to its modifier
Relocked(l) == Wire(sent.form, sent.num, WireModifier + l + 1)

\* C5: for every recognized key token and every shift/ctrl/alt combination,
\* with either flag value, matches_key is true when the bytes are a well-formed
\* Kitty or modifyOtherKeys encoding of the spec's key whose lock-masked
\* modifier is the spec's modifier bitmask.
C5_CrossProtocol ==
    /\ op = "matches_key"
    /\ Encoded
    /\ sent.key # 0 /\ sent.key \notin 65..90
    /\ WireModifier <= 7
    /\ \E t \in TextTokens \cup NavTokens :
          t[2] = sent.key /\ key_id = ModPrefix(WireModifier) \o t[1]
    => ret = Ret(TRUE)

\* C6: matches_kitty_sequence(bytes, cp, M) equals the result for M with the
\* lock bits 64 and 128 added, and equals the result for the same key sent
\* with any lock bits added to the modifier on the wire.
C6_LockBitsIgnored ==
    op = "matches_kitty_sequence" =>
        /\ \A l \in LockBits :
              ret = matches_kitty_sequence(data, expected_codepoint,
                                           U32Or(expected_modifier, U32(l)))
        /\ Encoded =>
              \A l \in LockBits :
                  ret = matches_kitty_sequence(Relocked(l), expected_codepoint,
                                               expected_modifier)

\* ctrl+shift with Caps-Lock and Num-Lock on the wire matched against
\* ctrl+shift with no lock bit
C6_Witness ==
    /\ op = "matches_kitty_sequence"
    /\ Encoded /\ sent.raw = 198
    /\ expected_modifier = U32(5)
    /\ ret = Ret(TRUE)

\* C7: for every key spec and flag value, adding the Caps-Lock and/or
\* Num-Lock bit to the modifier of a Kitty or modifyOtherKeys sequence does
\* not change the result of matches_key.
C7_LockNeverSignificant ==
    op = "matches_key" /\ Encoded =>
        \A l \in LockBits :
            ret = matches_key(Relocked(l), key_id, kitty_protocol_active)

\* C8: a CSI-u, CSI ~, CSI 1;mod letter or modifyOtherKeys sequence whose
\* modifiers field is 0 does not decode: parse_kitty_sequence and the
\* modifyOtherKeys decoder return nothing, and so do the exported functions
\* built on them.
C8_ModifierZeroInvalid ==
    sent.raw = 0 =>
        /\ parse_kitty_sequence(data) = None
        /\ parse_modify_other_keys(data) = None
        /\ op \in {"parse_kitty_sequence", "parse_key"} => ret = None
        /\ op \in {"matches_kitty_sequence", "matches_key"} => ret = Ret(FALSE)

\* CSI 1;0A given to parse_kitty_sequence
C8_Witness ==
    /\ sent.raw = 0 /\ sent.form = "csi_1" /\ sent.key = ARROW_UP
    /\ op = "parse_kitty_sequence"
    /\ ret = None

\* C9: no exported function panics on any input: every index is within
\* bounds and no subtraction underflows.
C9_NoPanic == ret.tag # "Panic"

\* A truncated CSI sequence given to matches_key
C9_Witness ==
    /\ data = <<27, 91, 49>>
    /\ op = "matches_key" /\ key_id = Bytes("shift+up")
    /\ ret = Ret(FALSE)

\* The key tokens that are names, as the claim lists them
NamedKeyTokens ==
    {t[1] : t \in NavTokens}
    \cup {Bytes("escape"), Bytes("tab"), Bytes("enter"), Bytes("space"), Bytes("backspace")}

\* The modifier prefixes shift+, ctrl+, alt+, each at most once, in that order
CanonicalPrefixes == {ModPrefix(m) : m \in 0..7}

\* Lowercase canonical names: a prefix and a named token or a single printable
\* character that is no uppercase letter
LowercaseNames ==
    {p \o t : p \in CanonicalPrefixes,
              t \in NamedKeyTokens \cup {<<c>> : c \in (33..126) \ (65..90)}}

\* Canonical names as parse_key spells them: pageUp and pageDown in camel
\* case, and any single printable character
SpelledNames ==
    {p \o t : p \in CanonicalPrefixes,
              t \in (NamedKeyTokens \ {Bytes("pageup"), Bytes("pagedown")})
                    \cup {Bytes("pageUp"), Bytes("pageDown")}
                    \cup {<<c>> : c \in 33..126}}

CsiUNamedKeys ==
    { <<Bytes("escape"), 27>>, <<Bytes("tab"), 9>>, <<Bytes("enter"), 13>>,
      <<Bytes("space"), 32>>, <<Bytes("backspace"), 127>> }

\* C11: for escape, tab, enter, space and backspace and every combination m
\* of shift(1)/alt(2)/ctrl(4), parse_key of ESC [ <codepoint> ; <m+1> u is the
\* canonical name of the key with exactly the modifiers of m, the prefixes in
\* the order shift, ctrl, alt; with either flag value.
C11_CsiURoundTrip ==
    \A k \in CsiUNamedKeys, m \in 0..7 :
        op = "parse_key" /\ data = EncCsiU(k[2], m + 1)
        => ret = Some(ModPrefix(m) \o k[1])

\* ESC [ 127 ; 8 u parsed: every modifier on backspace
C11_Witness ==
    /\ op = "parse_key"
    /\ data = Esc("[127;8u")
    /\ ret = Some(Bytes("shift+ctrl+alt+backspace"))

\* The keycodes sent in modifyOtherKeys form, with the name of each
MokKeycodeNames ==
    { <<CP_ESCAPE, Bytes("escape")>>, <<CP_TAB, Bytes("tab")>>, <<CP_ENTER, Bytes("enter")>>,
      <<CP_SPACE, Bytes("space")>>, <<CP_BACKSPACE, Bytes("backspace")>>,
      <<CP_KP_ENTER, Bytes("enter")>>, <<97, Bytes("a")>>, <<65, Bytes("A")>>,
      <<49, Bytes("1")>>, <<91, Bytes("[")>> }

\* C12: for every sequence ESC [ 27 ; <mods> ; <keycode> with or without a
\* trailing ~, with mods >= 1 and a keycode the formatter can name, parse_key
\* returns the name of the keycode prefixed by the modifiers of the bitmask
\* mods - 1, the same with and without the ~; parse_key of ESC [ 27 ; 5 ; 9 ~
\* is "ctrl+tab", and the largest 32-bit modifiers field still decodes.
C12_ModifyOtherKeys ==
    op = "parse_key" =>
        /\ \A k \in MokKeycodeNames, tilde \in BOOLEAN :
              /\ sent.form = "mok" /\ sent.raw >= 1 /\ sent.num = k[1]
              /\ data = EncMok(k[1], sent.raw, tilde)
              => /\ ret = Some(ModPrefix(sent.raw - 1) \o k[2])
                 /\ ret = parse_key(EncMok(k[1], sent.raw, ~tilde), kitty_protocol_active)
        /\ data = Esc("[27;5;9~") => ret = Some(Bytes("ctrl+tab"))
        /\ data = Esc("[27;4294967295;97~") => ret = Some(Bytes("ctrl+alt+a"))

\* ESC [ 27 ; 6 ; 9 without the trailing ~ parsed as shift+ctrl+tab
C12_Witness ==
    /\ op = "parse_key"
    /\ data = Esc("[27;6;9")
    /\ ret = Some(Bytes("shift+ctrl+tab"))

\* The sequences that keep their legacy meaning in both modes, with their names
LegacyExceptions ==
    { <<<<27, 9>>, Bytes("alt+tab")>>, <<<<27, 13>>, Bytes("alt+enter")>>,
      <<<<27, 127>>, Bytes("alt+backspace")>>, <<<<27, 8>>, Bytes("alt+backspace")>>,
      <<Esc("[Z"), Bytes("shift+tab")>> }

\* C13: with either value of kitty_protocol_active, matches_key is true for
\* ESC TAB against "alt+tab", ESC CR against "alt+enter", ESC 0x7f and
\* ESC 0x08 against "alt+backspace" and ESC [ Z against "shift+tab", and
\* parse_key gives those sequences those names.
C13_LegacyExceptions ==
    \A e \in LegacyExceptions :
        data = e[1] =>
            /\ (op = "matches_key" /\ key_id = e[2] => ret = Ret(TRUE))
            /\ (op = "parse_key" => ret = Some(e[2]))

\* ESC CR matched against alt+enter while the Kitty protocol is active
C13_Witness ==
    /\ op = "matches_key" /\ kitty_protocol_active
    /\ data = <<27, 13>> /\ key_id = Bytes("alt+enter")
    /\ ret = Ret(TRUE)

\* The key spec with every ASCII letter in upper case, and in lower case
UpperCased(id) == [i \in 1..Len(id) |-> to_ascii_uppercase(id[i])]

LowerCased(id) == [i \in 1..Len(id) |-> to_ascii_lowercase(id[i])]

\* C14: for every byte sequence, flag value and key spec, matches_key gives
\* the same answer for the spec and for the spec written in upper case or in
\* lower case ("f1" and "F1", "ctrl+a" and "CTRL+A").
C14_CaseInsensitive ==
    op = "matches_key" =>
        /\ ret = matches_key(data, UpperCased(key_id), kitty_protocol_active)
        /\ ret = matches_key(data, LowerCased(key_id), kitty_protocol_active)

\* The modifier words of the bitmask m
ModWordsOf(m) ==
    {w \in {"shift", "ctrl", "alt"} :
        \/ w = "shift" /\ BitAnd(m, MOD_SHIFT) # 0
        \/ w = "ctrl" /\ BitAnd(m, MOD_CTRL) # 0
        \/ w = "alt" /\ BitAnd(m, MOD_ALT) # 0}

\* The ways to write a modifier word
Spellings(w) ==
    CASE w = "shift" -> {Bytes("shift")}
      [] w = "ctrl" -> {Bytes("ctrl"), Bytes("control")}
      [] w = "alt" -> {Bytes("alt"), Bytes("option")}

\* The modifier words of m in every order, and in every order with the first
\* word repeated at the end
WordOrders(m) ==
    {q \in UNION {[1..n -> ModWordsOf(m)] :
                     n \in Cardinality(ModWordsOf(m))..(Cardinality(ModWordsOf(m)) + 1)} :
        /\ {q[i] : i \in DOMAIN q} = ModWordsOf(m)
        /\ Len(q) > Cardinality(ModWordsOf(m)) => q[1] = q[Len(q)]}

\* The words of q, each followed by +
RECURSIVE WrittenPrefix(_)
WrittenPrefix(q) ==
    IF q = <<>> THEN <<>> ELSE Bytes(Head(q)) \o <<43>> \o WrittenPrefix(Tail(q))

\* The words of m in canonical order, in every spelling, each followed by +
RECURSIVE SpelledPrefixes(_)
SpelledPrefixes(q) ==
    IF q = <<>> THEN {<<>>}
    ELSE {w \o <<43>> \o rest : w \in Spellings(Head(q)), rest \in SpelledPrefixes(Tail(q))}

\* The modifier words of m in the order shift, ctrl, alt
CanonicalWords(m) ==
    (IF "shift" \in ModWordsOf(m) THEN <<"shift">> ELSE <<>>)
    \o (IF "ctrl" \in ModWordsOf(m) THEN <<"ctrl">> ELSE <<>>)
    \o (IF "alt" \in ModWordsOf(m) THEN <<"alt">> ELSE <<>>)

\* For each bitmask, the prefixes that name its modifiers in another order,
\* with a repetition, or in another spelling
ModifierVariants ==
    [m \in 1..7 |-> {WrittenPrefix(q) : q \in WordOrders(m)}
                    \cup SpelledPrefixes(CanonicalWords(m))]

\* The canonical modifier prefix of each bitmask
CanonicalPrefix == [m \in 0..7 |-> ModPrefix(m)]

\* The bitmask of the longest canonical modifier prefix of the key spec (0: none)
SpecModifier(id) ==
    IF \E m \in 1..7 : starts_with(id, CanonicalPrefix[m])
    THEN CHOOSE m \in 1..7 :
            /\ starts_with(id, CanonicalPrefix[m])
            /\ \A m2 \in 1..7 : starts_with(id, CanonicalPrefix[m2])
                                => Len(CanonicalPrefix[m2]) <= Len(CanonicalPrefix[m])
    ELSE 0

\* matches_key gives the answer ret for the key spec id written with every
\* variant of its modifier prefix, which is that of the bitmask m
SameForVariants(id, m) ==
    m # 0 =>
        \A v \in ModifierVariants[m] :
            ret = matches_key(data, v \o SubSeq(id, Len(CanonicalPrefix[m]) + 1, Len(id)),
                              kitty_protocol_active)

\* C15: for every byte sequence and flag value, matches_key gives the same
\* answer for a key spec and for the spec with its modifier segments in any
\* other order, with a modifier segment repeated, and with "control" for
\* "ctrl" or "option" for "alt".
C15_ModifierOrderAndSynonyms ==
    op = "matches_key" => SameForVariants(key_id, SpecModifier(key_id))

\* shift+ctrl+alt+backspace matched, and matched again written as
\* alt+ctrl+shift+alt+backspace and as shift+control+option+backspace
C15_Witness ==
    /\ op = "matches_key"
    /\ data = Esc("[127;8u") /\ key_id = Bytes("shift+ctrl+alt+backspace")
    /\ ret = Ret(TRUE)
    /\ {Bytes("alt+ctrl+shift+alt+"), Bytes("shift+control+option+")}
           \subseteq ModifierVariants[7]
    /\ matches_key(data, Bytes("alt+ctrl+shift+alt+backspace"),
                   kitty_protocol_active) = Ret(TRUE)

\* C18: a decoded Kitty sequence matches a target (codepoint, modifier)
\* exactly when its lock-masked modifier equals the lock-masked expected
\* modifier and its primary or its base-layout codepoint is the target; a
\* CSI-u sequence whose base-layout field (not its primary codepoint) is the
\* key satisfies matches_kitty_sequence and matches_key, and one whose only
\* equal field is the shifted codepoint does not.
C18_BaseLayoutEquivalence ==
    /\ op = "matches_kitty_sequence" /\ parse_kitty_sequence(data).tag = "Some" =>
          ret = Ret(/\ U32And(parse_kitty_sequence(data).val.modifier, NOT_LOCK_MASK)
                       = U32And(expected_modifier, NOT_LOCK_MASK)
                    /\ \/ parse_kitty_sequence(data).val.codepoint = expected_codepoint
                       \/ parse_kitty_sequence(data).val.base_layout_key
                          = Some(expected_codepoint))
    /\ sent.form \in {"csi_u_base", "csi_u_shifted"} /\ sent.raw >= 1 /\ WireModifier <= 7 =>
          /\ /\ op = "matches_kitty_sequence"
             /\ expected_codepoint = sent.key
             /\ U32And(expected_modifier, NOT_LOCK_MASK) = U32(WireModifier)
             => ret = Ret(sent.form = "csi_u_base")
          /\ /\ op = "matches_key"
             /\ key_id = ModPrefix(WireModifier) \o <<sent.key>>
             => ret = Ret(sent.form = "csi_u_base")

\* C19: the two bytes ESC + space satisfy "alt+space" when
\* kitty_protocol_active is false and not when it is true; parse_key names
\* them alt+space when the flag is false and returns nothing when it is true.
C19_AltSpaceByMode ==
    data = <<27, 32>> =>
        /\ op = "matches_key" /\ key_id = Bytes("alt+space")
           => ret = Ret(~kitty_protocol_active)
        /\ op = "parse_key"
           => ret = IF kitty_protocol_active THEN None ELSE Some(Bytes("alt+space"))

\* ESC + space refused for alt+space while the Kitty protocol is active
C19_Witness ==
    /\ op = "matches_key" /\ kitty_protocol_active
    /\ data = <<27, 32>> /\ key_id = Bytes("alt+space")
    /\ ret = Ret(FALSE)

\* The forms of the alternate-key-codes group after codepoint 97, with the
\* shifted and the base-layout key each reports
AlternateGroupForms ==
    { <<"", None, None>>, <<":65", Some(65), None>>, <<"::98", None, Some(98)>>,
      <<":65:98", Some(65), Some(98)>>, <<":", None, None>>, <<":65:", Some(65), None>> }

\* C20: CSI cp u, CSI cp:shifted u, CSI cp::base u, CSI cp:shifted:base u,
\* CSI cp: u and CSI cp:shifted: u, each with or without ;mods, all decode,
\* an empty sub-field being reported as absent.
C20_AlternateGroupOptional ==
    \A f \in AlternateGroupForms, m \in {<<"", 0>>, <<";5", 4>>} :
        /\ op = "parse_kitty_sequence"
        /\ data = Esc("[97") \o Bytes(f[1]) \o Bytes(m[1]) \o <<117>>
        => ret = Some([codepoint |-> 97, shifted_key |-> f[2], base_layout_key |-> f[3],
                       modifier |-> U32(m[2]), event_type |-> None])

----------------------------------------------------------------------------
(* Properties of the shell executions                                      *)

\* C16: every Ok result of Shell.run and execute_shell is consistent:
\* exit_code is present exactly when the result is neither cancelled nor
\* timed_out, cancelled and timed_out are never both true, and timed_out is
\* true only in a call that configured a timeout.
C16_ResultConsistent ==
    \A c \in CallIds :
        calls[c].pc = "done" /\ calls[c].result.tag = "Ok" =>
            /\ calls[c].result.val.exit_code # None
               <=> ~calls[c].result.val.cancelled /\ ~calls[c].result.val.timed_out
            /\ ~(calls[c].result.val.cancelled /\ calls[c].result.val.timed_out)
            /\ calls[c].result.val.timed_out => calls[c].timeout_ms

\* A Shell.run that timed out after its command had ended, and an
\* execute_shell that was cancelled, have both returned
C16_Witness ==
    \E c, d \in CallIds :
        /\ calls[c].pc = "done" /\ calls[c].kind = "run"
        /\ calls[c].run_task = "ok"
        /\ calls[c].result = Ok(ShellRunResult(None, FALSE, TRUE))
        /\ calls[d].pc = "done" /\ calls[d].kind = "execute"
        /\ calls[d].result = Ok(ShellRunResult(None, TRUE, FALSE))

\* The calls Shell s started that are in flight
RunsOf(s) == {c \in InFlight : calls[c].kind = "run" /\ calls[c].shell_id = s}

\* Call c is as it was, but for its cancel receiver
SameButReceiver(c) == calls'[c] = [calls[c] EXCEPT !.cancel_rx = calls'[c].cancel_rx]

\* After the step call c has no entry in the registry, and its select, if
\* it is still waiting, has the cancel branch ready
RemovedAndSignalled(c) ==
    /\ \A id \in DOMAIN EXECUTIONS' : EXECUTIONS'[id].cancel # c
    /\ calls[c].pc = "select" => calls'[c].cancel_rx \in {"sent", "closed"}
    /\ SameButReceiver(c)

\* The step leaves the entry under id, and the call that registered it, alone
Spared(id) ==
    /\ id \in DOMAIN EXECUTIONS'
    /\ EXECUTIONS'[id] = EXECUTIONS[id]
    /\ calls'[EXECUTIONS[id].cancel] = calls[EXECUTIONS[id].cancel]

\* What Shell.abort of Shell s does
AbortsAllOf(s) ==
    /\ \A c \in RunsOf(s) : RemovedAndSignalled(c)
    /\ \A c \in CallIds \ RunsOf(s) : calls'[c] = calls[c]
    /\ \A id \in DOMAIN EXECUTIONS : EXECUTIONS[id].shell_id # s => Spared(id)
    /\ \A id \in DOMAIN EXECUTIONS' : id \in DOMAIN EXECUTIONS /\ EXECUTIONS'[id].shell_id # s
    /\ RunsOf(s) = {} => UNCHANGED vars

\* What abort_shell_execution(id) does
AbortsOnly(id) ==
    /\ DOMAIN EXECUTIONS' = DOMAIN EXECUTIONS \ {id}
    /\ \A other \in DOMAIN EXECUTIONS \ {id} : Spared(other)
    /\ id \in DOMAIN EXECUTIONS =>
        /\ calls[EXECUTIONS[id].cancel].pc = "select"
           => calls'[EXECUTIONS[id].cancel].cancel_rx = "sent"
        /\ SameButReceiver(EXECUTIONS[id].cancel)
        /\ \A c \in CallIds \ {EXECUTIONS[id].cancel} : calls'[c] = calls[c]
    /\ id \notin DOMAIN EXECUTIONS => UNCHANGED vars

\* C17: Shell.abort can always be called; it takes out of the registry and
\* signals every in-flight execution its Shell started, and leaves every
\* other execution and entry as it was; abort_shell_execution(id) can always
\* be called, removes and signals the entry under id only, and changes
\* nothing when there is none.
C17_AbortTargetedAndTotal ==
    [][ /\ \A s \in Shells :
            /\ ENABLED Shell_abort(s)
            /\ Shell_abort(s) => AbortsAllOf(s)
        /\ \A id \in 1..MaxExecutionId :
            /\ ENABLED abort_shell_execution(id)
            /\ abort_shell_execution(id) => AbortsOnly(id) ]_vars

\* A Shell.run has been aborted while an execute_shell in flight beside it
\* is still registered and not signalled
C17_Witness ==
    \E c, d \in CallIds :
        /\ calls[c].kind = "run" /\ calls[c].pc = "select"
        /\ calls[c].cancel_rx = "sent"
        /\ \A id \in DOMAIN EXECUTIONS : EXECUTIONS[id].cancel # c
        /\ calls[d].kind = "execute" /\ calls[d].pc = "select"
        /\ calls[d].cancel_rx = "open"
        /\ calls[d].execution_id \in DOMAIN EXECUTIONS
        /\ EXECUTIONS[calls[d].execution_id].cancel = d

----------------------------------------------------------------------------
(* Properties of the decoders, continued                                   *)

\* CSI 97 <alternates> <modifiers> <text> u
GrammarBytes(a, m, t) == Esc("[97") \o Bytes(a) \o Bytes(m) \o Bytes(t) \o <<117>>

\* The modifiers fields that are omitted or empty, with the event type each
\* carries, and the text fields that are digit runs separated by colons
EmptyModifiers == { <<"", None>>, <<";", None>>, <<";:1", Some(U32(1))>> }

ValidTexts == {"", ";", ";97", ";97:98", ";:", ";:97", ";97:"}

\* The decode of CSI 97 <alternates> u, by alternates
DecodedAlternates == [a \in CsiUAlternates |-> parse_kitty_sequence_napi(GrammarBytes(a, "", ""))]

\* The decode of CSI 97 <alternates> <modifiers> u, by alternates and modifiers
DecodedWithoutText ==
    [f \in CsiUAlternates \X CsiUModifiers |->
        parse_kitty_sequence_napi(GrammarBytes(f[1], f[2], ""))]

\* C21: of the sequences CSI 97 <alternates> <modifiers> <text> u: where
\* CSI 97 <alternates> u decodes, the same sequence with an omitted
\* or empty modifiers field, also followed by an event type or by a text
\* field, decodes to the same key with modifier 0; a text field of digit runs
\* and colons after a modifiers field leaves the decode as it is without the
\* text field; a byte that belongs to no field before the terminator makes
\* the decode fail.
C21_EmptyModifiersAndText ==
    op = "parse_kitty_sequence" /\ sent.form \in {"grammar", "stray"} =>
        /\ \A a \in CsiUAlternates, m \in EmptyModifiers, t \in ValidTexts :
            /\ data = GrammarBytes(a, m[1], t)
            /\ m[1] = "" => t = ""
            /\ DecodedAlternates[a].tag = "Some"
            => ret = Some([DecodedAlternates[a].val EXCEPT !.modifier = U32(0),
                                                          !.event_type = m[2]])
        /\ \A a \in CsiUAlternates, m \in CsiUModifiers \ {""}, t \in ValidTexts :
            data = GrammarBytes(a, m, t) => ret = DecodedWithoutText[<<a, m>>]
        /\ \A a \in CsiUAlternates, m \in CsiUModifiers \ {""} :
            data = GrammarBytes(a, m, ";a") => ret = None
        /\ sent.form = "stray" => ret = None

\* An empty modifiers field followed by an event type and a text field
C21_Witness ==
    /\ op = "parse_kitty_sequence"
    /\ data = Esc("[97:65;:1;97:98u")
    /\ ret = Some([codepoint |-> 97, shifted_key |-> Some(65), base_layout_key |-> None,
                   modifier |-> U32(0), event_type |-> Some(U32(1))])

\* The index just past the maximal run of ASCII digits of bytes in [idx, end)
RECURSIVE RunEnd(_, _, _)
RunEnd(bytes, idx, end) ==
    IF idx < end /\ bytes[idx + 1] \in 48..57 THEN RunEnd(bytes, idx + 1, end) ELSE idx

\* A digit run without its leading zeros (one digit at least)
RECURSIVE Stripped(_)
Stripped(run) == IF Len(run) > 1 /\ run[1] = 48 THEN Stripped(Tail(run)) ELSE run

\* run < other for digit runs of the same length
RECURSIVE DigitsLess(_, _)
DigitsLess(run, other) ==
    /\ run # <<>>
    /\ \/ run[1] < other[1]
       \/ run[1] = other[1] /\ DigitsLess(Tail(run), Tail(other))

\* The value of the digit run exceeds 2^32 - 1
Exceeds(run) ==
    \/ Len(Stripped(run)) > 10
    \/ Len(Stripped(run)) = 10 /\ DigitsLess(Bytes("4294967295"), Stripped(run))

\* The decimal digits of a u32, by long division of its two limbs
RECURSIVE DecU32(_)
DecU32(v) ==
    IF v.hi = 0 /\ v.lo < 10 THEN <<48 + v.lo>>
    ELSE DecU32([hi |-> v.hi \div 10, lo |-> ((v.hi % 10) * Limb + v.lo) \div 10])
         \o <<48 + (((v.hi % 10) * Limb + v.lo) % 10)>>

\* What the scanner is to return on bytes and [idx, end); absent stands for
\* the outcome when there is no digit at idx or the value overflows
Scanned(bytes, idx, end, r, absent) ==
    IF idx >= end \/ RunEnd(bytes, idx, end) = idx
       \/ Exceeds(SubSeq(bytes, idx + 1, RunEnd(bytes, idx, end)))
    THEN r = absent
    ELSE /\ r.tag = "Some"
         /\ r.val.idx = RunEnd(bytes, idx, end)
         /\ r.val.idx <= end
         /\ DecU32(r.val.value) = Stripped(SubSeq(bytes, idx + 1, r.val.idx))

\* C22: on a window [idx, end) parse_digits returns the value of the maximal
\* digit run at idx and the index just past it, at most end; it returns
\* nothing when the window is empty, starts with no digit, or the value
\* exceeds 2^32 - 1; parse_optional_digits returns the same value and index,
\* and no value and idx in those three cases; parse_kitty_sequence and
\* parse_key return nothing for a sequence with a field that exceeds 2^32 - 1.
C22_DigitScanner ==
    /\ op = "parse_digits" => Scanned(data, window.idx, window.end, ret, None)
    /\ op = "parse_optional_digits" =>
        /\ ret.tag = "Some"
        /\ Scanned(data, window.idx, window.end,
                   IF ret.val.value = None THEN ret.val
                   ELSE Some([value |-> ret.val.value.val, idx |-> ret.val.idx]),
                   [value |-> None, idx |-> window.idx])
    /\ op \in {"parse_kitty_sequence", "parse_key"} /\ sent.form = "overflow" => ret = None

\* The scanner stopped at the separator after 2^32 - 1
C22_Witness ==
    /\ op = "parse_digits"
    /\ data = Bytes("4294967295;") /\ window = Window(0, 11)
    /\ ret = Some([value |-> [hi |-> 65535, lo |-> 65535], idx |-> 10])

\* The modifier names, in lowercase
ModifierNames == {Bytes("ctrl"), Bytes("control"), Bytes("shift"), Bytes("alt"), Bytes("option")}

\* The segments of a key spec between its + signs, trimmed, in lowercase
Segments(id) ==
    [i \in 1..Len(split_plus(trim(id))) |-> LowerCased(trim(split_plus(trim(id))[i]))]

\* The key spec ends with a segment that is a modifier name
EndsWithModifier(id) ==
    /\ Len(trim(id)) > 0
    /\ Segments(id)[Len(Segments(id))] \in ModifierNames

\* C23 as stated: a key spec whose final segment is a modifier name parses,
\* and its key token is that final segment.
C23_LastSegmentIsKey ==
    op = "matches_key" /\ EndsWithModifier(key_id) =>
        /\ parse_key_id(key_id).tag = "Some"
        /\ LowerCased(parse_key_id(key_id).val.key) = Segments(key_id)[Len(Segments(key_id))]

\* C23 amended: a segment that is a modifier name is a modifier wherever it
\* stands: the key token of a parsed key spec is never a modifier name, a key
\* spec ending with a modifier name has the key token of its last segment that
\* is none, and with modifier names only it does not parse and matches_key
\* answers false.
C23_ModifierNeverKey ==
    op = "matches_key" =>
        /\ parse_key_id(key_id).tag = "Some"
           => LowerCased(parse_key_id(key_id).val.key) \notin ModifierNames
        /\ EndsWithModifier(key_id)
           /\ (\A i \in 1..Len(Segments(key_id)) : Segments(key_id)[i] \in ModifierNames)
           => parse_key_id(key_id) = None /\ ret = Ret(FALSE)

\* "ctrl+shift" was asked about and refused
C23_Witness ==
    /\ op = "matches_key"
    /\ key_id = Bytes("ctrl+shift")
    /\ parse_key_id(key_id) = None
    /\ ret = Ret(FALSE)

\* C25: when parse_key(data, flag) returns a name, matches_key(data, name,
\* flag) is true.
C25_ParseThenMatch ==
    /\ op = "matches_key"
    /\ parse_key(data, kitty_protocol_active) = Some(key_id)
    => ret = Ret(TRUE)

----------------------------------------------------------------------------
(* Properties of the shell executions, continued                           *)

\* C26: a call sets cancelled only when its cancel receiver holds the value
\* an abort sent: Shell.abort of the Shell that started it or
\* abort_shell_execution with its id, the only senders there are; no
\* start, return or abort of another execution cancels it.
C26_CancelledOnlyByAbort ==
    [][\A c \in CallIds :
        ~calls[c].cancelled /\ calls'[c].cancelled => calls[c].cancel_rx = "sent"]_vars

\* Call c has its entry in the registry: the one under its id is its own
Registered(c) ==
    /\ calls[c].execution_id \in DOMAIN EXECUTIONS
    /\ EXECUTIONS[calls[c].execution_id].cancel = c

RegisteredAfter(c) ==
    /\ calls'[c].execution_id \in DOMAIN EXECUTIONS'
    /\ EXECUTIONS'[calls'[c].execution_id].cancel = c

\* C27: a call that waits in its select and was sent no cancellation has
\* its entry in the registry; the registry is empty when no call is in
\* flight; and the entry of a call leaves the registry only in a step that
\* is that call's return, abort_shell_execution with its id, or Shell.abort
\* of its Shell.
C27_RegistryOwnership ==
    [][ /\ \A c \in CallIds :
            calls[c].pc = "select" /\ calls[c].cancel_rx # "sent" => Registered(c)
        /\ InFlight = {} => EXECUTIONS = <<>>
        /\ \A c \in CallIds :
            Registered(c) /\ ~RegisteredAfter(c) =>
                \/ calls[c].pc # "done" /\ calls'[c].pc = "done"
                \/ abort_shell_execution(calls[c].execution_id)
                \/ calls[c].kind = "run" /\ Shell_abort(calls[c].shell_id) ]_vars

\* C28: a step in which execute_shell is called with an id that is in the
\* registry ends that call with the error "Execution already running" and no
\* task, and leaves the registry and every other call as they were.
C28_DuplicateIdRefused ==
    [][\A c \in CallIds :
        /\ calls[c].pc = "idle"
        /\ calls'[c].kind = "execute"
        /\ calls'[c].execution_id \in DOMAIN EXECUTIONS
        => /\ calls'[c].pc = "done"
           /\ calls'[c].result = Err("Execution already running")
           /\ calls'[c].run_task = "none"
           /\ EXECUTIONS' = EXECUTIONS
           /\ \A d \in CallIds \ {c} : calls'[d] = calls[d]]_vars

\* An execute_shell was refused while the execution under its id waits on,
\* registered and not cancelled
C28_Witness ==
    \E c, d \in CallIds :
        /\ calls[d].pc = "done"
        /\ calls[d].result = Err("Execution already running")
        /\ calls[c].pc = "select" /\ calls[c].cancel_rx = "open"
        /\ calls[c].execution_id = calls[d].execution_id
        /\ Registered(c)

\* Run a has been found tainted and has not yet discarded the session of
\* Shell s, in which its command ran
TaintedIn(a, s) ==
    /\ calls[a].kind = "run" /\ calls[a].shell_id = s
    /\ calls[a].tainted /\ calls[a].pc = "reset"
    /\ sessions[s].session = Some(calls[a].session)

\* C29: a tainted Shell.run returns only in a step that leaves its Shell
\* without session; no command of a Shell starts in the session while a run
\* that was found tainted in it has yet to discard it; a command that finds
\* no session runs in one of its own; and no two commands of a Shell run at
\* the same time.
C29_SessionTaint ==
    [][ /\ \A a \in CallIds :
            calls[a].tainted /\ calls[a].pc = "reset" /\ calls'[a].pc = "done"
            => sessions'[calls[a].shell_id].session = None
        /\ \A c \in CallIds :
            calls[c].run_task = "waiting" /\ calls'[c].run_task = "running"
            => /\ \A a \in CallIds \ {c} : ~TaintedIn(a, calls[c].shell_id)
               /\ sessions[calls[c].shell_id].session = None => calls'[c].session = c
        /\ \A c, d \in CallIds :
            /\ c # d /\ calls[c].kind = "run" /\ calls[d].kind = "run"
            /\ calls[c].shell_id = calls[d].shell_id
            => ~(calls[c].run_task = "running" /\ calls[d].run_task = "running") ]_vars

----------------------------------------------------------------------------
(* The work profiler *)

\* The stored samples, the oldest first
OldestFirst(self) ==
    IF Len(self.samples) < self.capacity
    THEN self.samples
    ELSE SubSeq(self.samples, self.write_pos + 1, Len(self.samples))
         \o SubSeq(self.samples, 1, self.write_pos)

\* The last k of the samples ever pushed
MostRecent(k) == SubSeq(pushed, Len(pushed) - k + 1, Len(pushed))

Min(a, b) == IF a < b THEN a ELSE b

\* What holds of the buffer after any sequence of pushes
BufferBounded ==
    /\ Len(PROFILE_BUFFER.samples) <= PROFILE_BUFFER.capacity
    /\ PROFILE_BUFFER.write_pos < PROFILE_BUFFER.capacity
    /\ OldestFirst(PROFILE_BUFFER)
         = MostRecent(Min(Len(pushed), PROFILE_BUFFER.capacity))

\* What get_since gave back: samples of the buffer, none older than the cutoff
SinceCutoff(self, result) ==
    \A i \in 1..Len(result.samples) :
        /\ \E j \in 1..Len(self.samples) : self.samples[j] = result.samples[i]
        /\ result.samples[i].timestamp_us >= result.cutoff_us

\* C24: the circular buffer never holds more than its capacity: after any
\* sequence of pushes samples.len() <= capacity, write_pos < capacity and the
\* buffer holds exactly the most recent min(n, capacity) pushed samples, the
\* oldest one being the one overwritten; get_since returns only stored samples
\* whose timestamp is at or after the cutoff.
C24_CircularBuffer ==
    [][/\ BufferBounded'
       /\ profile' # profile => SinceCutoff(PROFILE_BUFFER, profile')]_vars

\* More samples pushed than the buffer holds, and a profile taken afterwards
\* that leaves out a stored sample older than its cutoff
C24_Witness ==
    /\ Len(pushed) > PROFILE_BUFFER.capacity
    /\ PROFILE_BUFFER.write_pos = 1
    /\ profile.cutoff_us > 0
    /\ profile.samples # <<>>
    /\ Len(profile.samples) < Len(get_since(PROFILE_BUFFER, 0))
    /\ profile.samples = get_since(PROFILE_BUFFER, profile.cutoff_us)

\* The guards of thread t that are not dropped yet, in the order they were made
LiveGuards(t) ==
    SelectSeq([g \in 1..Len(guards) |-> g],
              LAMBDA g : guards[g].thread = t /\ ~guards[g].dropped)

\* The regions those guards opened
LiveRegions(t) ==
    [i \in 1..Len(LiveGuards(t)) |-> guards[LiveGuards(t)[i]].region]

\* C30: the region stack of a thread is balanced: each guard's drop removes
\* that guard's own region, whatever the order of the drops, so the stack
\* holds the regions of the guards of the thread that are still alive and is
\* empty again once every one of them has been dropped.
C30_RegionStackBalanced ==
    \A t \in Threads : REGION_STACK[t] = LiveRegions(t)

====
